---------------------------- MODULE Spec2Model ----------------------------
(***************************************************************************)
(* Homemates backend: the CSV stores (flats.csv, tenants.csv, leads.csv),   *)
(* the record normalizer, property search (GET /properties/match), the     *)
(* property catalogue (create, read, update, delete, upload, import), the  *)
(* lead view (GET /leads), stored leads and their reads, tenant lookup by  *)
(* phone and by id, the tenant list (GET /tenants), the voice agent's       *)
(* webhook, the data-health analysis of uploaded datasets, and create      *)
(* operations of the CSV store that run interleaved at their awaits.       *)
(*                                                                         *)
(* Text is a sequence of one-character strings, so that splitting,         *)
(* trimming, substring tests, case folding and number parsing are computed *)
(* on characters as the JavaScript code computes them.  Numbers are held   *)
(* in tenths (fixed point), which is exact for the integral texts the      *)
(* model feeds to parseFloat and for their products with 0.8, 1.2, 0.2 and *)
(* 0.1.                                                                    *)
(***************************************************************************)
EXTENDS Integers, Sequences, FiniteSets, TLC

VARIABLES
    properties,   \* database/flats.csv: the parsed rows of the file
    tenants,      \* database/tenants.csv: the parsed rows of the file
    leadsCsv,     \* database/leads.csv: the parsed rows of the file
    dataset,      \* the parsed rows of an uploaded dataset file
    inflight,     \* the create operations of csvStorage that are under way
    clock,        \* source of Date.now() / Math.random() for generated ids
    response      \* the last handler's request and response

vars == <<properties, tenants, leadsCsv, dataset, inflight, clock, response>>

(***************************************************************************)
(* Bounds of the model.                                                    *)
(***************************************************************************)
MaxSearchProps == 2
MaxLeadProps == 2
MaxScoreProps == 5
MaxLeadTenants == 1
MaxPhoneTenants == 1
MaxClock == 5
MaxPhoneClock == 2

(***************************************************************************)
(* JavaScript values.                                                      *)
(***************************************************************************)
\* the value of a missing object key / query parameter
Undefined == <<"undefined">>

\* truthiness of a string-or-undefined value: '' and undefined are falsy
Truthy(x) == x # Undefined /\ x # <<>>

\* a || b
Or(a, b) == IF Truthy(a) THEN a ELSE b

\* data[col] on a parsed CSV row or a request body
Get(data, col) == IF col \in DOMAIN data THEN data[col] ELSE Undefined

UpperChars == <<"A","B","C","D","E","F","G","H","I","J","K","L","M",
                "N","O","P","Q","R","S","T","U","V","W","X","Y","Z">>
LowerChars == <<"a","b","c","d","e","f","g","h","i","j","k","l","m",
                "n","o","p","q","r","s","t","u","v","w","x","y","z">>

LowerOf ==
    [c \in {UpperChars[i] : i \in 1..26} |->
        LowerChars[CHOOSE i \in 1..26 : UpperChars[i] = c]]

toLowerChar(c) == IF c \in DOMAIN LowerOf THEN LowerOf[c] ELSE c

\* String.prototype.toLowerCase
toLowerCase(s) == [i \in 1..Len(s) |-> toLowerChar(s[i])]

\* the characters matched by \s that occur in the model's texts
IsSpace(c) == c = " "

SetMin(S) == CHOOSE x \in S : \A y \in S : x <= y
SetMax(S) == CHOOSE x \in S : \A y \in S : x >= y

\* String.prototype.trim
trim(s) ==
    LET solid == {i \in 1..Len(s) : ~IsSpace(s[i])}
    IN  IF solid = {} THEN <<>> ELSE SubSeq(s, SetMin(solid), SetMax(solid))

\* String.prototype.split(sep) for a one-character separator
RECURSIVE split(_, _)
split(s, sep) ==
    LET at == {i \in 1..Len(s) : s[i] = sep}
    IN  IF at = {} THEN <<s>>
        ELSE <<SubSeq(s, 1, SetMin(at) - 1)>>
                 \o split(SubSeq(s, SetMin(at) + 1, Len(s)), sep)

\* String.prototype.includes: needle occurs in hay ('' occurs in every string)
includes(hay, needle) ==
    \E i \in 0..(Len(hay) - Len(needle)) :
        SubSeq(hay, i + 1, i + Len(needle)) = needle

\* String.prototype.startsWith
startsWith(s, prefix) ==
    Len(s) >= Len(prefix) /\ SubSeq(s, 1, Len(prefix)) = prefix

\* Array.prototype.map(f) on a sequence
MapSeq(f(_), xs) == [i \in 1..Len(xs) |-> f(xs[i])]

\* Array.prototype.filter
RECURSIVE FilterSeq(_, _)
FilterSeq(keep(_), xs) ==
    IF xs = <<>> THEN <<>>
    ELSE (IF keep(Head(xs)) THEN <<Head(xs)>> ELSE <<>>)
             \o FilterSeq(keep, Tail(xs))

(***************************************************************************)
(* Numbers: NaN, Infinity or a finite value held in tenths.                *)
(***************************************************************************)
NaN == [kind |-> "nan", t |-> 0]
Infinity == [kind |-> "inf", t |-> 0]
Fin(tenths) == [kind |-> "fin", t |-> tenths]

Digits == <<"0","1","2","3","4","5","6","7","8","9">>
IsDigit(c) == \E i \in 1..10 : Digits[i] = c
DigitVal(c) == (CHOOSE i \in 1..10 : Digits[i] = c) - 1

RECURSIVE DigitsValue(_)
DigitsValue(ds) ==
    IF ds = <<>> THEN 0
    ELSE 10 * DigitsValue(SubSeq(ds, 1, Len(ds) - 1)) + DigitVal(ds[Len(ds)])

\* length of the longest prefix of s made of digits
DigitPrefixLen(s) ==
    LET stop == {i \in 1..Len(s) : ~IsDigit(s[i])}
    IN  IF stop = {} THEN Len(s) ELSE SetMin(stop) - 1

\* parseFloat on texts without '.', exponent or "Infinity": leading white
\* space is skipped, an optional sign and the longest digit prefix are read,
\* anything after it is ignored, and no digit at all gives NaN.  undefined
\* is converted to the string "undefined" first, hence NaN.
parseFloat(s) ==
    IF s = Undefined THEN NaN
    ELSE
    LET lead == {i \in 1..Len(s) : ~IsSpace(s[i])}
        t    == IF lead = {} THEN <<>> ELSE SubSeq(s, SetMin(lead), Len(s))
        sgn  == IF t # <<>> /\ t[1] = "-" THEN -1 ELSE 1
        body == IF t # <<>> /\ t[1] \in {"+", "-"} THEN Tail(t) ELSE t
        n    == DigitPrefixLen(body)
    IN  IF n = 0 THEN NaN
        ELSE Fin(10 * sgn * DigitsValue(SubSeq(body, 1, n)))

\* x || 0 on a number: NaN and 0 are falsy
OrZero(x) == IF x.kind = "nan" THEN Fin(0) ELSE x

\* x * (k/10)
TimesTenths(x, k) ==
    CASE x.kind = "nan" -> NaN
      [] x.kind = "inf" -> Infinity
      [] OTHER -> Fin((x.t * k) \div 10)

\* a - b on finite-or-NaN numbers
Minus(a, b) ==
    IF a.kind = "fin" /\ b.kind = "fin" THEN Fin(a.t - b.t) ELSE NaN

\* a + b on finite-or-NaN numbers
Plus(a, b) ==
    IF a.kind = "fin" /\ b.kind = "fin" THEN Fin(a.t + b.t) ELSE NaN

\* a <= b: false when either side is NaN
Leq(a, b) ==
    CASE a.kind = "nan" \/ b.kind = "nan" -> FALSE
      [] b.kind = "inf" -> TRUE
      [] a.kind = "inf" -> FALSE
      [] OTHER -> a.t <= b.t

\* a >= b
Geq(a, b) == Leq(b, a)


\* String.prototype.replace(pattern, '') with a string pattern: the first
\* occurrence of pattern is removed
removeFirst(s, pattern) ==
    LET at == {i \in 0..(Len(s) - Len(pattern)) :
                   SubSeq(s, i + 1, i + Len(pattern)) = pattern}
    IN  IF at = {} THEN s
        ELSE SubSeq(s, 1, SetMin(at))
                 \o SubSeq(s, SetMin(at) + Len(pattern) + 1, Len(s))

\* x?.toLowerCase()
OptLower(x) == IF x = Undefined THEN Undefined ELSE toLowerCase(x)

(***************************************************************************)
(* Texts.                                                                  *)
(***************************************************************************)
DecimalText(n) == IF n < 10 THEN <<Digits[n + 1]>>
                  ELSE <<Digits[(n \div 10) + 1], Digits[(n % 10) + 1]>>

\* `${prefix}_${Date.now()}_${Math.random().toString(36).substr(2, 9)}`:
\* the clock reading and the position of the row stand for the time stamp
\* and the random suffix
GenId(prefix, now, i) == prefix \o <<"_">> \o DecimalText(now) \o <<"_">> \o DecimalText(i)

T_prop == <<"p","r","o","p">>
T_PROP == <<"P","R","O","P">>
T_tenant == <<"t","e","n","a","n","t">>
T_available == <<"a","v","a","i","l","a","b","l","e">>
T_occupied == <<"o","c","c","u","p","i","e","d">>
T_Hyderabad == <<"H","y","d","e","r","a","b","a","d">>
T_guest == <<"g","u","e","s","t">>
T_call == <<"c","a","l","l">>
T_app == <<"a","p","p">>
T_BHK == <<"B","H","K">>
T_spBHK == <<" ","B","H","K">>
T_new == <<"n","e","w">>
T_false == <<"f","a","l","s","e">>
T_tenant_csv == <<"t","e","n","a","n","t","_","c","s","v">>
T_lead == <<"l","e","a","d">>

\* null, where an object is expected
Null == [null |-> TRUE]

\* the TypeError thrown by a method call on undefined
TypeError == [error |-> "TypeError"]

(***************************************************************************)
(* CSV files.  A file is the sequence of its parsed rows; a row maps the   *)
(* columns of the file's header to texts.                                  *)
(***************************************************************************)
PROPERTY_HEADERS == {"property_id", "property_code", "title", "city", "locality",
                     "rent", "bedrooms", "area_sqft", "amenities", "status",
                     "owner_id"}

\* the header of tenants.csv, in file order
TENANT_HEADER_ROW == <<"tenant_id", "name", "phone", "whatsapp_number", "email",
                       "city", "localities", "budget_min", "budget_max", "bedrooms",
                       "amenities", "source", "created_at">>

TENANT_HEADERS == {TENANT_HEADER_ROW[i] : i \in 1..Len(TENANT_HEADER_ROW)}

\* writeCSV: every record is written under the given header, a missing
\* value as the empty string; readCSV returns the rows as written
writeCSV(data, headers) ==
    [i \in 1..Len(data) |->
        [h \in headers |-> IF Get(data[i], h) = Undefined THEN <<>> ELSE data[i][h]]]

\* mapFlatsToProperty; now and i feed the generated identifiers
mapFlatsToProperty(data, now, i) ==
    IF Truthy(Get(data, "property_code")) \/ Truthy(Get(data, "property_id"))
    THEN data
    ELSE [property_id   |-> Or(Get(data, "property_id"), GenId(T_prop, now, i)),
          property_code |-> Or(Get(data, "property_code"),
                               Or(Get(data, "Code"), GenId(T_PROP, now, i))),
          title         |-> Or(Get(data, "title"), Or(Get(data, "Name"), <<>>)),
          city          |-> Or(Get(data, "city"), T_Hyderabad),
          locality      |-> Or(Get(data, "locality"), Or(Get(data, "Locality"), <<>>)),
          rent          |-> Or(Get(data, "rent"),
                               Or(Get(data, "Budget"), Or(Get(data, "Price"), <<>>))),
          bedrooms      |-> Or(Get(data, "bedrooms"),
                               Or(IF Get(data, "BHKtype") = Undefined THEN Undefined
                                  ELSE removeFirst(removeFirst(data["BHKtype"], T_spBHK), T_BHK),
                                  <<>>)),
          area_sqft     |-> Or(Get(data, "area_sqft"), Or(Get(data, "SFT"), <<>>)),
          amenities     |-> Or(Get(data, "amenities"), Or(Get(data, "Amenities"), <<>>)),
          status        |-> Or(Get(data, "status"), T_available),
          owner_id      |-> Or(Get(data, "owner_id"), <<>>)]

\* readCSV(PROPERTIES_CSV) followed by .map(mapFlatsToProperty)
mappedProperties(now) ==
    [i \in 1..Len(properties) |-> mapFlatsToProperty(properties[i], now, i)]

\* whether a read of flats.csv generates identifiers (reads the clock)
PropertiesNeedIds ==
    \E i \in 1..Len(properties) :
        ~(Truthy(Get(properties[i], "property_code"))
            \/ Truthy(Get(properties[i], "property_id")))

\* csvStorage.getProperties(filters)
getProperties(filters, now) ==
    LET byOwner(p)  == p.owner_id = filters.owner_id
        byCity(p)   == OptLower(Get(p, "city")) = OptLower(filters.city)
        byStatus(p) == Get(p, "status") = filters.status
        f1 == IF Truthy(filters.owner_id)
              THEN FilterSeq(byOwner, mappedProperties(now)) ELSE mappedProperties(now)
        f2 == IF Truthy(filters.city) THEN FilterSeq(byCity, f1) ELSE f1
    IN  IF Truthy(filters.status) THEN FilterSeq(byStatus, f2) ELSE f2

NoFilters == [owner_id |-> Undefined, city |-> Undefined, status |-> Undefined]


(***************************************************************************)
(* Tenants: csvStorage.getTenants, createTenant and POST /tenants.         *)
(***************************************************************************)
\* data['Budget']?.split('-')[k]?.trim()
budgetPart(data, k) ==
    IF Get(data, "Budget") = Undefined THEN Undefined
    ELSE LET parts == split(data["Budget"], "-")
         IN  IF k <= Len(parts) THEN trim(parts[k]) ELSE Undefined

\* a normalizer that gives every row a fresh identifier
mapTenantsToTenant_newId(data, now, i) ==
    [c \in DOMAIN data \cup {"tenant_id"} |->
        IF c = "tenant_id" THEN GenId(T_tenant, now, i) ELSE data[c]]

\* mapTenantsToTenant; now and i feed the generated identifier
mapTenantsToTenant(data, now, i) ==
    IF Truthy(Get(data, "tenant_id"))
    THEN data
    ELSE [tenant_id       |-> Or(Get(data, "tenant_id"), GenId(T_tenant, now, i)),
          name            |-> Or(Get(data, "name"), Or(Get(data, "Name"), <<>>)),
          phone           |-> Or(Get(data, "phone"), Or(Get(data, "Mobile"), <<>>)),
          whatsapp_number |-> Or(Get(data, "whatsapp_number"),
                                 Or(Get(data, "phone"), Or(Get(data, "Mobile"), <<>>))),
          email           |-> Or(Get(data, "email"), <<>>),
          city            |-> Or(Get(data, "city"), T_Hyderabad),
          localities      |-> Or(Get(data, "localities"), Or(Get(data, "Locality"), <<>>)),
          budget_min      |-> Or(Get(data, "budget_min"), Or(budgetPart(data, 1), <<>>)),
          budget_max      |-> Or(Get(data, "budget_max"),
                                 Or(budgetPart(data, 2), Or(Get(data, "Budget"), <<>>))),
          bedrooms        |-> Or(Get(data, "bedrooms"),
                                 Or(IF Get(data, "BHKtype") = Undefined THEN Undefined
                                    ELSE removeFirst(removeFirst(data["BHKtype"], T_spBHK), T_BHK),
                                    <<>>)),
          amenities       |-> Or(Get(data, "amenities"),
                                 Or(Get(data, "Must Need amenities"), <<>>)),
          source          |-> Or(Get(data, "source"), T_call),
          created_at      |-> Or(Get(data, "created_at"), DecimalText(now))]

\* readCSV(TENANTS_CSV) followed by .map(mapTenantsToTenant)
mappedTenants(now) ==
    [i \in 1..Len(tenants) |-> mapTenantsToTenant(tenants[i], now, i)]

\* whether a read of tenants.csv generates identifiers (reads the clock)
TenantsNeedIds ==
    \E i \in 1..Len(tenants) : ~Truthy(Get(tenants[i], "tenant_id"))

\* s.replace(/[\s\+\-\(\)]/g, '')
stripPhone(s) ==
    LET drop(c) == IsSpace(c) \/ c \in {"+", "-", "(", ")"}
        RECURSIVE go(_)
        go(r) == IF r = <<>> THEN <<>>
                 ELSE (IF drop(Head(r)) THEN <<>> ELSE <<Head(r)>>) \o go(Tail(r))
    IN  go(s)

\* csvStorage.getTenants(filters)
getTenants(filters, now) ==
    LET byPhone(t) ==
            LET tPhone      == stripPhone(Or(Get(t, "phone"), <<>>))
                tWhatsapp   == stripPhone(Or(Get(t, "whatsapp_number"), <<>>))
                filterPhone == stripPhone(filters.phone)
            IN  tPhone = filterPhone \/ tWhatsapp = filterPhone
        byCity(t) == OptLower(Get(t, "city")) = OptLower(filters.city)
        f1 == IF Truthy(filters.phone)
              THEN FilterSeq(byPhone, mappedTenants(now)) ELSE mappedTenants(now)
    IN  IF Truthy(filters.city) THEN FilterSeq(byCity, f1) ELSE f1

NoTenantFilters == [phone |-> Undefined, city |-> Undefined]

\* csvStorage.createTenant: the record built from tenantData; request bodies
\* carry strings only, so the array branches are unused
newTenantOf(tenantData, now, i) ==
    [tenant_id       |-> Or(Get(tenantData, "tenant_id"), GenId(T_tenant, now, i)),
     name            |-> Or(Get(tenantData, "name"), <<>>),
     phone           |-> Or(Get(tenantData, "phone"), <<>>),
     whatsapp_number |-> Or(Get(tenantData, "whatsapp_number"),
                            Or(Get(tenantData, "phone"), <<>>)),
     email           |-> Or(Get(tenantData, "email"), <<>>),
     city            |-> Or(Get(tenantData, "city"), <<>>),
     localities      |-> IF Get(tenantData, "localities") = Undefined THEN <<>>
                         ELSE tenantData["localities"],
     budget_min      |-> Or(Get(tenantData, "budget_min"), <<>>),
     budget_max      |-> Or(Get(tenantData, "budget_max"), <<>>),
     bedrooms        |-> Or(Get(tenantData, "bedrooms"), <<>>),
     amenities       |-> IF Get(tenantData, "amenities") = Undefined THEN <<>>
                         ELSE tenantData["amenities"],
     source          |-> Or(Get(tenantData, "source"), T_call),
     created_at      |-> DecimalText(now)]

\* the line POST /tenants appends to database/tenants.csv, as csv-parser
\* reads it back: seven cells under the first seven columns of the header
\* (preferences is never sent, so the 'others' cell is empty)
appendedLine(tenant) ==
    LET cells == << Or(tenant.name, <<>>),
                    Or(tenant.phone, <<>>),
                    Or(tenant.localities, <<>>),
                    Or(tenant.budget_max, Or(tenant.budget_min, <<>>)),
                    IF Truthy(tenant.bedrooms) THEN tenant.bedrooms \o T_spBHK ELSE <<>>,
                    Or(tenant.amenities, <<>>),
                    <<>> >>
    IN  [h \in {TENANT_HEADER_ROW[i] : i \in 1..Len(cells)} |->
            cells[CHOOSE i \in 1..Len(cells) : TENANT_HEADER_ROW[i] = h]]

\* the row csv-parser makes of an empty line: no cell at all
EmptyRow == [h \in {} |-> <<>>]

\* tenantsRouter.post('/'): createTenant rewrites the file in canonical form
\* with the new tenant last; the handler then appends '\n' and a legacy-format
\* line to the same file, database/tenants.csv.  The file written by
\* csv-writer ends with a newline, so the appended '\n' leaves an empty line
\* before the new line; blankRow tells whether the parser reports it as a row
CreateTenant(body, blankRow) ==
    LET tenantData == [c \in DOMAIN body \cup {"source"} |->
                          IF c = "source" THEN Or(Get(body, "source"), T_app)
                          ELSE body[c]]
        mapped     == mappedTenants(clock)
        tenant     == newTenantOf(tenantData, clock, Len(mapped) + 1)
        written    == writeCSV(Append(mapped, tenant), TENANT_HEADERS)
    IN  /\ clock < MaxClock
        /\ tenants' = written \o (IF blankRow THEN <<EmptyRow>> ELSE <<>>)
                              \o <<appendedLine(tenant)>>
        /\ clock' = clock + 1
        /\ response' = [op |-> "createTenant", status |-> 201, tenant |-> tenant]
        /\ UNCHANGED <<properties, leadsCsv, dataset, inflight>>

\* a lookup that keeps the leading 0 of the stored numbers
getTenantByPhone_keepZero(phone, now) ==
    LET mapped == mappedTenants(now)
        dropZero(x) == IF startsWith(x, <<"0">>) THEN SubSeq(x, 2, Len(x)) ELSE x
        normalizedPhone == dropZero(stripPhone(phone))
        found(t) ==
            LET tPhone    == stripPhone(Or(Get(t, "phone"), <<>>))
                tWhatsapp == stripPhone(Or(Get(t, "whatsapp_number"), <<>>))
            IN  \/ tPhone = normalizedPhone \/ tWhatsapp = normalizedPhone
                \/ tPhone = phone \/ tWhatsapp = phone
        hits == {i \in 1..Len(mapped) : found(mapped[i])}
    IN  IF phone = Undefined THEN TypeError
        ELSE IF hits = {} THEN Null ELSE mapped[SetMin(hits)]

\* csvStorage.getTenantByPhone(phone): the first mapped tenant whose phone or
\* whatsapp_number equals the queried number after normalisation, or null;
\* phone.replace throws when phone is undefined
getTenantByPhone(phone, now) ==
    LET mapped == mappedTenants(now)
        dropZero(x) == IF startsWith(x, <<"0">>) THEN SubSeq(x, 2, Len(x)) ELSE x
        normalizedPhone == dropZero(stripPhone(phone))
        found(t) ==
            LET tPhone    == dropZero(stripPhone(Or(Get(t, "phone"), <<>>)))
                tWhatsapp == dropZero(stripPhone(Or(Get(t, "whatsapp_number"), <<>>)))
            IN  \/ tPhone = normalizedPhone \/ tWhatsapp = normalizedPhone
                \/ tPhone = phone \/ tWhatsapp = phone
        hits == {i \in 1..Len(mapped) : found(mapped[i])}
    IN  IF phone = Undefined THEN TypeError
        ELSE IF hits = {} THEN Null ELSE mapped[SetMin(hits)]

\* tenantsRouter.get('/phone/:phone'): 404 when no tenant is found, the error
\* handler's 500 when the lookup throws; the read generates identifiers for
\* rows without tenant_id
GetTenantByPhone(phone) ==
    LET tenant == getTenantByPhone(phone, clock)
        next   == IF TenantsNeedIds THEN clock + 1 ELSE clock
    IN  /\ next <= MaxPhoneClock
        /\ clock' = next
        /\ response' = [op |-> "tenantByPhone",
                        status |-> IF tenant = TypeError THEN 500
                                   ELSE IF tenant = Null THEN 404 ELSE 200,
                        phone |-> phone, tenant |-> tenant]
        /\ UNCHANGED <<properties, tenants, leadsCsv, dataset, inflight>>

(***************************************************************************)
(* POST /properties and csvStorage.createProperty.                         *)
(***************************************************************************)
\* csvStorage.createProperty: the record built from propertyData; request
\* bodies carry strings only, so the array branches of amenities are unused
newPropertyOf(propertyData, now, i) ==
    [property_id   |-> Or(Get(propertyData, "property_id"), GenId(T_prop, now, i)),
     property_code |-> Or(Get(propertyData, "property_code"), <<>>),
     title         |-> Or(Get(propertyData, "title"), <<>>),
     city          |-> Or(Get(propertyData, "city"), <<>>),
     locality      |-> Or(Get(propertyData, "locality"), <<>>),
     rent          |-> Or(Get(propertyData, "rent"), <<>>),
     bedrooms      |-> Or(Get(propertyData, "bedrooms"), <<>>),
     area_sqft     |-> Or(Get(propertyData, "area_sqft"), <<>>),
     amenities     |-> IF Get(propertyData, "amenities") = Undefined THEN <<>>
                       ELSE propertyData["amenities"],
     status        |-> Or(Get(propertyData, "status"), T_available),
     owner_id      |-> Or(Get(propertyData, "owner_id"), <<>>)]

\* propertiesRouter.post('/'): the body with owner and status defaults,
\* stored by createProperty, which rewrites the whole file in canonical form
CreateProperty(body) ==
    LET propertyData == [c \in DOMAIN body \cup {"owner_id", "status"} |->
                            CASE c = "owner_id" -> Or(Get(body, "owner_id"), T_guest)
                              [] c = "status"   -> Or(Get(body, "status"), T_available)
                              [] OTHER          -> body[c]]
        mapped       == mappedProperties(clock)
        newProperty  == newPropertyOf(propertyData, clock, Len(mapped) + 1)
    IN  /\ clock < MaxClock
        /\ properties' = writeCSV(Append(mapped, newProperty), PROPERTY_HEADERS)
        /\ clock' = clock + 1
        /\ response' = [op |-> "createProperty", status |-> 201, property |-> newProperty]
        /\ UNCHANGED <<tenants, leadsCsv, dataset, inflight>>

(***************************************************************************)
(* GET /properties/match.                                                  *)
(***************************************************************************)
\* city criterion
cityMatches(property, city) ==
    OptLower(Get(property, "city")) = toLowerCase(city)

\* locality criterion
localityMatches(property, locality) ==
    LET propertyLocality == Or(OptLower(Get(property, "locality")), <<>>)
        tenantLocalities == MapSeq(trim, split(toLowerCase(locality), ","))
    IN  \E i \in 1..Len(tenantLocalities) :
            includes(propertyLocality, tenantLocalities[i])

\* bedrooms criterion
bedroomsMatch(property, bedrooms) == Get(property, "bedrooms") = bedrooms

\* budget criterion
budgetMatches(property, budget_min, budget_max) ==
    LET propertyRent == OrZero(parseFloat(Get(property, "rent")))
        minBudget == IF Truthy(budget_min)
                     THEN TimesTenths(parseFloat(budget_min), 8) ELSE Fin(0)
        maxBudget == IF Truthy(budget_max)
                     THEN TimesTenths(parseFloat(budget_max), 12) ELSE Infinity
    IN  Geq(propertyRent, minBudget) /\ Leq(propertyRent, maxBudget)

\* amenities criterion
amenitiesMatch(property, amenities) ==
    LET propertyAmenities == toLowerCase(Or(Get(property, "amenities"), <<>>))
        tenantAmenities   == MapSeq(trim, split(toLowerCase(amenities), ","))
    IN  \E i \in 1..Len(tenantAmenities) :
            includes(propertyAmenities, tenantAmenities[i])

Bit(b) == IF b THEN 1 ELSE 0

\* the number of supplied constraints
totalCriteria(q) ==
    Bit(Truthy(q.city)) + Bit(Truthy(q.locality)) + Bit(Truthy(q.bedrooms))
        + Bit(Truthy(q.budget_min) \/ Truthy(q.budget_max)) + Bit(Truthy(q.amenities))

\* the number of supplied constraints the property satisfies
matchScore(property, q) ==
    Bit(Truthy(q.city) /\ cityMatches(property, q.city))
        + Bit(Truthy(q.locality) /\ localityMatches(property, q.locality))
        + Bit(Truthy(q.bedrooms) /\ bedroomsMatch(property, q.bedrooms))
        + Bit((Truthy(q.budget_min) \/ Truthy(q.budget_max))
                /\ budgetMatches(property, q.budget_min, q.budget_max))
        + Bit(Truthy(q.amenities) /\ amenitiesMatch(property, q.amenities))

\* strict matching: every supplied constraint must be satisfied
isMatched_strict(property, q) == matchScore(property, q) = totalCriteria(q) /\ totalCriteria(q) > 0

\* relaxed matching that drops the no-constraint case
isMatched_noDefault(property, q) == matchScore(property, q) >= 1

\* the filter callback's return value
isMatched(property, q) == totalCriteria(q) = 0 \/ matchScore(property, q) >= 1

\* a comparator that orders by descending rent
compareRent_descending(a, b) ==
    Minus(OrZero(parseFloat(Get(b, "rent"))), OrZero(parseFloat(Get(a, "rent")))).t

\* the sort comparator: rentA - rentB, in tenths
compareRent(a, b) ==
    Minus(OrZero(parseFloat(Get(a, "rent"))), OrZero(parseFloat(Get(b, "rent")))).t

\* matchedProperties.sort(...): Array.prototype.sort is stable
RECURSIVE sortByRent(_)
sortByRent(xs) ==
    IF xs = <<>> THEN <<>>
    ELSE LET front == sortByRent(SubSeq(xs, 1, Len(xs) - 1))
             x     == xs[Len(xs)]
             k     == Cardinality({i \in 1..Len(front) : compareRent(front[i], x) <= 0})
         IN  SubSeq(front, 1, k) \o <<x>> \o SubSeq(front, k + 1, Len(front))

\* the clock advances when a read had to generate identifiers
ReadClock == IF PropertiesNeedIds THEN clock + 1 ELSE clock

\* propertiesRouter.get('/match')
MatchProperties(q) ==
    LET allProperties == getProperties([NoFilters EXCEPT !.status = T_available], clock)
        keep(p) == isMatched(p, q)
        matchedProperties == sortByRent(FilterSeq(keep, allProperties))
    IN  /\ ReadClock <= MaxClock
        /\ clock' = ReadClock
        /\ response' = [op |-> "match", status |-> 200, query |-> q,
                        allProperties |-> allProperties,
                        properties |-> matchedProperties,
                        count |-> Len(matchedProperties)]
        /\ UNCHANGED <<properties, tenants, leadsCsv, dataset, inflight>>


(***************************************************************************)
(* GET /leads: every tenant as a lead against the property pool.           *)
(***************************************************************************)
\* locality check of the lead view
localityCheck(tenant, prop) ==
    /\ Truthy(Get(tenant, "localities"))
    /\ Truthy(Get(prop, "locality"))
    /\ LET tenantLocalities == MapSeq(trim, split(toLowerCase(tenant.localities), ","))
           propLocality     == toLowerCase(prop.locality)
       IN  \E i \in 1..Len(tenantLocalities) :
               \/ includes(propLocality, tenantLocalities[i])
               \/ includes(tenantLocalities[i], propLocality)

\* a budget check without the 20% tolerance
budgetCheck_exact(tenant, prop) ==
    /\ Truthy(Get(tenant, "budget_min"))
    /\ Truthy(Get(tenant, "budget_max"))
    /\ Truthy(Get(prop, "rent"))
    /\ Geq(parseFloat(prop.rent), parseFloat(tenant.budget_min))
    /\ Leq(parseFloat(prop.rent), parseFloat(tenant.budget_max))

\* budget check of the lead view
budgetCheck(tenant, prop) ==
    /\ Truthy(Get(tenant, "budget_min"))
    /\ Truthy(Get(tenant, "budget_max"))
    /\ Truthy(Get(prop, "rent"))
    /\ LET tenantMin   == parseFloat(tenant.budget_min)
           tenantMax   == parseFloat(tenant.budget_max)
           propRent    == parseFloat(prop.rent)
           budgetRange == TimesTenths(Minus(tenantMax, tenantMin), 2)
       IN  /\ Geq(propRent, Minus(tenantMin, budgetRange))
           /\ Leq(propRent, Plus(tenantMax, budgetRange))

\* bedrooms check of the lead view
bedroomsCheck(tenant, prop) ==
    /\ Truthy(Get(tenant, "bedrooms"))
    /\ Truthy(Get(prop, "bedrooms"))
    /\ tenant.bedrooms = prop.bedrooms

\* amenities check of the lead view
amenitiesCheck(tenant, prop) ==
    /\ Truthy(Get(tenant, "amenities"))
    /\ Truthy(Get(prop, "amenities"))
    /\ LET tenantAmenities == MapSeq(trim, split(toLowerCase(tenant.amenities), ","))
           propAmenities   == MapSeq(trim, split(toLowerCase(prop.amenities), ","))
       IN  \E i \in 1..Len(tenantAmenities) :
               \E j \in 1..Len(propAmenities) : propAmenities[j] = tenantAmenities[i]

\* the counter matches of the filter callback
matches(tenant, prop) ==
    Bit(localityCheck(tenant, prop)) + Bit(budgetCheck(tenant, prop))
        + Bit(bedroomsCheck(tenant, prop)) + Bit(amenitiesCheck(tenant, prop))

\* a filter callback that asks for two passing checks
isMatchingProperty_two(tenant, prop) == matches(tenant, prop) > 1

\* the filter callback's return value
isMatchingProperty(tenant, prop) == matches(tenant, prop) > 0

\* a score without the cap
leadMatchScore_uncapped(n) == IF n > 0 THEN 5 + n ELSE 3

\* Math.min(0.9, 0.5 + n * 0.1) or 0.3, in tenths
leadMatchScore(n) ==
    IF n > 0 THEN (IF 5 + n < 9 THEN 5 + n ELSE 9) ELSE 3

\* Number.prototype.toString of a non-negative number held in tenths
numberToString(t) ==
    IF t % 10 = 0 THEN DecimalText(t \div 10)
    ELSE DecimalText(t \div 10) \o <<".">> \o DecimalText(t % 10)

\* a best match that takes the last matching property
bestMatchOf_last(matchingProperties) ==
    IF matchingProperties = <<>> THEN Null
    ELSE matchingProperties[Len(matchingProperties)]

\* matchingProperties[0] || null
bestMatchOf(matchingProperties) ==
    IF matchingProperties = <<>> THEN Null ELSE matchingProperties[1]

\* x || '' on a field of the best match
OrEmpty(x) == IF Truthy(x) THEN x ELSE <<>>

\* the lead built for one tenant
leadOf(tenant, ownerProperties, status, now, i) ==
    LET keep(prop) == isMatchingProperty(tenant, prop)
        matchingProperties == FilterSeq(keep, ownerProperties)
        score     == leadMatchScore(Len(matchingProperties))
        bestMatch == bestMatchOf(matchingProperties)
    IN  [lead_id       |-> Or(Get(tenant, "tenant_id"), GenId(T_lead, now, i)),
         tenant_id     |-> Get(tenant, "tenant_id"),
         property_id   |-> IF bestMatch = Null THEN <<>>
                           ELSE OrEmpty(Get(bestMatch, "property_id")),
         property_code |-> IF bestMatch = Null THEN <<>>
                           ELSE OrEmpty(Get(bestMatch, "property_code")),
         channel       |-> T_tenant_csv,
         match_score   |-> numberToString(score),
         status        |-> Or(status, T_new),
         owner_notified |-> T_false,
         created_at    |-> Or(Get(tenant, "created_at"), DecimalText(now)),
         tenant        |-> [c \in {"tenant_id", "name", "phone", "whatsapp_number",
                                   "email", "city", "localities", "budget_min",
                                   "budget_max", "bedrooms", "amenities"} |->
                               Get(tenant, c)],
         property      |-> IF bestMatch = Null THEN Null
                           ELSE [c \in {"property_id", "property_code", "title",
                                        "locality", "rent", "bedrooms", "area_sqft",
                                        "amenities"} |-> Get(bestMatch, c)],
         matching_properties_count |-> Len(matchingProperties)]

\* new Date(text).getTime() for the clock readings stored as created_at
timeOf(text) == DigitsValue(text)

\* filteredLeads.sort(...): newest first, stable
RECURSIVE sortNewestFirst(_)
sortNewestFirst(xs) ==
    IF xs = <<>> THEN <<>>
    ELSE LET front == sortNewestFirst(SubSeq(xs, 1, Len(xs) - 1))
             x     == xs[Len(xs)]
             k     == Cardinality({i \in 1..Len(front) :
                           timeOf(x.created_at) - timeOf(front[i].created_at) <= 0})
         IN  SubSeq(front, 1, k) \o <<x>> \o SubSeq(front, k + 1, Len(front))

\* leadsRouter.get('/')
ListLeads(q) ==
    LET now == clock
        tenantRows == getTenants(NoTenantFilters, now)
        ownerProperties ==
            IF Truthy(q.owner_id)
            THEN getProperties([NoFilters EXCEPT !.owner_id = q.owner_id], now)
            ELSE getProperties(NoFilters, now)
        leads == [i \in 1..Len(tenantRows) |->
                     leadOf(tenantRows[i], ownerProperties, q.status, now, i)]
        hasStatus(lead) == lead.status = q.status
        filteredLeads == IF Truthy(q.status) THEN FilterSeq(hasStatus, leads) ELSE leads
        sorted == sortNewestFirst(filteredLeads)
        next == IF TenantsNeedIds \/ PropertiesNeedIds THEN clock + 1 ELSE clock
    IN  /\ next <= MaxClock
        /\ clock' = next
        /\ response' = [op |-> "leads", status |-> 200, query |-> q,
                        tenants |-> tenantRows,
                        ownerProperties |-> ownerProperties,
                        leads |-> sorted,
                        count |-> Len(sorted)]
        /\ UNCHANGED <<properties, tenants, leadsCsv, dataset, inflight>>

(***************************************************************************)
(* Inputs: request bodies, queries and the files found at start-up.        *)
(***************************************************************************)
T_Hyd == <<"H","y","d">>
T_hyd == <<"h","y","d">>
T_Che == <<"C","h","e">>
T_che == <<"c","h","e">>
T_Gachi == <<"G","a","c","h","i">>
T_Kond == <<"K","o","n","d">>
T_gachi_mad == <<"g","a","c","h","i",","," ","m","a","d">>
T_Gym_Lift == <<"G","y","m",","," ","L","i","f","t">>
T_Lift == <<"L","i","f","t">>
T_pool == <<"p","o","o","l">>
T_abc == <<"a","b","c">>

T_Gachi_Mad == <<"G","a","c","h","i",","," ","M","a","d">>
T_Kondapur == <<"K","o","n","d","a","p","u","r">>
T_gym_lift == <<"g","y","m",","," ","l","i","f","t">>
T_Lift_pool == <<"L","i","f","t",","," ","p","o","o","l">>
T_lifts == <<"l","i","f","t","s">>
T_Asha == <<"A","s","h","a">>
T_Ravi == <<"R","a","v","i">>
T_10_20 == <<"1","0","-","2","0">>
T_2BHK == <<"2","B","H","K">>

\* decimal numerals
N(n) == DecimalText(n)

\* bodies of POST /properties
SearchPropertyBodies ==
    { [city |-> T_Hyd, locality |-> T_Gachi, rent |-> N(12), bedrooms |-> N(2),
       amenities |-> T_Gym_Lift],
      [city |-> T_che, locality |-> T_Kond, rent |-> N(13), bedrooms |-> N(3),
       amenities |-> <<>>, status |-> T_available],
      [city |-> T_Hyd, locality |-> T_Gachi, rent |-> N(12), bedrooms |-> N(2),
       amenities |-> T_pool, status |-> T_occupied],
      [city |-> T_Che, locality |-> T_Kond, rent |-> T_abc, bedrooms |-> N(1)] }

\* a flats.csv in the legacy column layout, as shipped in database/
LegacyFlats ==
    << [Name |-> T_abc, Mobile |-> N(7), Locality |-> T_Kond, Budget |-> N(10),
        BHKtype |-> N(2) \o T_spBHK, Amenities |-> T_Lift, SFT |-> N(90)] >>

InitialFlats == {<<>>, LegacyFlats}

Query(city, locality, bedrooms, budget_min, budget_max, amenities) ==
    [city |-> city, locality |-> locality, bedrooms |-> bedrooms,
     budget_min |-> budget_min, budget_max |-> budget_max, amenities |-> amenities]

\* every combination of supplied and absent constraints
PresenceQueries ==
    { Query(c, l, b, lo, lo, a) :
        c \in {Undefined, T_hyd}, l \in {Undefined, T_gachi_mad},
        b \in {Undefined, N(2)}, lo \in {Undefined, N(11)},
        a \in {Undefined, T_Lift} }

\* budget-only queries around the edges of the band, with malformed bounds
BudgetQueries ==
    { Query(Undefined, Undefined, Undefined, b[1], b[2], Undefined) :
        b \in { <<N(15), Undefined>>, <<N(16), Undefined>>,
                <<Undefined, N(10)>>, <<Undefined, N(9)>>,
                <<N(15), N(10)>>, <<N(0), N(9)>>, <<<<>>, N(10)>>,
                <<T_abc, Undefined>>, <<Undefined, T_abc>>,
                <<T_abc, N(10)>>, <<N(15), T_abc>> } }

MatchQueries == PresenceQueries \cup BudgetQueries

NoResponse == [op |-> "none"]

(***************************************************************************)
(* Property search: properties are created and searched.                   *)
(***************************************************************************)
InitSearch ==
    /\ properties \in InitialFlats
    /\ tenants = <<>>
    /\ clock = 0
    /\ leadsCsv = <<>>
    /\ dataset = <<>>
    /\ inflight = <<>>
    /\ response = NoResponse

NextSearch ==
    \/ \E body \in SearchPropertyBodies :
           Len(properties) < MaxSearchProps /\ CreateProperty(body)
    \/ \E q \in MatchQueries : MatchProperties(q)

SpecSearch == InitSearch /\ [][NextSearch]_vars


(***************************************************************************)
(* Lead view: properties and tenants are created and the leads listed.     *)
(***************************************************************************)
\* bodies of POST /properties for the lead pool
LeadPropertyBodies ==
    { [locality |-> T_Gachi, rent |-> N(8)],
      [rent |-> N(23), bedrooms |-> N(2), amenities |-> T_Lift_pool],
      [locality |-> T_Kond, rent |-> T_abc, bedrooms |-> N(3), amenities |-> T_lifts] }

\* bodies of POST /tenants
LeadTenantBodies ==
    { [name |-> T_Asha, phone |-> N(7), localities |-> T_Gachi_Mad,
       budget_min |-> N(10), budget_max |-> N(20), bedrooms |-> N(2),
       amenities |-> T_gym_lift],
      [name |-> T_Ravi, budget_min |-> N(10), budget_max |-> N(20)],
      [name |-> T_Ravi, budget_min |-> N(11), budget_max |-> N(21)],
      [name |-> T_Ravi, budget_min |-> T_abc, budget_max |-> N(20)],
      [budget_max |-> N(20)],
      [name |-> T_Asha, localities |-> T_Kondapur] }

\* a tenants.csv in the legacy column layout
LegacyTenants ==
    << [Name |-> T_Asha, Mobile |-> N(7), Locality |-> T_Gachi, Budget |-> T_10_20,
        BHKtype |-> T_2BHK, Others |-> <<>>] @@ ("Must Need amenities" :> T_Lift) >>

InitialTenantFiles == {<<>>, LegacyTenants}

LeadQueries ==
    { [owner_id |-> Undefined, status |-> Undefined],
      [owner_id |-> T_guest, status |-> T_new] }

\* a flats.csv in the legacy column layout with no Budget and no amenities
SparseLegacyFlats ==
    << [Name |-> T_abc, Mobile |-> N(7), Locality |-> T_Kond,
        BHKtype |-> N(3) \o T_spBHK] >>

InitialLeadFlats == {<<>>, SparseLegacyFlats}

\* whether csv-parser reports the empty line before an appended line as a row
BlankLineOutcomes == {FALSE, TRUE}

InitLeads ==
    /\ properties \in InitialLeadFlats
    /\ tenants \in InitialTenantFiles
    /\ clock = 0
    /\ leadsCsv = <<>>
    /\ dataset = <<>>
    /\ inflight = <<>>
    /\ response = NoResponse

NextLeads ==
    \/ \E body \in LeadPropertyBodies :
           Len(properties) < MaxLeadProps /\ CreateProperty(body)
    \/ \E body \in LeadTenantBodies, blankRow \in BlankLineOutcomes :
           Len(tenants) < MaxLeadTenants /\ CreateTenant(body, blankRow)
    \/ \E q \in LeadQueries : ListLeads(q)

SpecLeads == InitLeads /\ [][NextLeads]_vars

(***************************************************************************)
(* Lead scoring: a larger pool of matching and non-matching properties.    *)
(***************************************************************************)
ScorePropertyBodies ==
    { [locality |-> T_Gachi, rent |-> N(8)],
      [locality |-> T_Kond, rent |-> T_abc, bedrooms |-> N(3), amenities |-> T_lifts] }

ScoreTenantBodies ==
    { [name |-> T_Asha, phone |-> N(7), localities |-> T_Gachi_Mad,
       budget_min |-> N(10), budget_max |-> N(20), bedrooms |-> N(2),
       amenities |-> T_gym_lift] }

\* the unfiltered lead view
ScoreQueries == { [owner_id |-> Undefined, status |-> Undefined] }

InitScore ==
    /\ properties \in InitialFlats
    /\ tenants = <<>>
    /\ clock = 0
    /\ leadsCsv = <<>>
    /\ dataset = <<>>
    /\ inflight = <<>>
    /\ response = NoResponse

NextScore ==
    \/ \E body \in ScorePropertyBodies :
           Len(properties) < MaxScoreProps /\ CreateProperty(body)
    \/ \E body \in ScoreTenantBodies, blankRow \in BlankLineOutcomes :
           Len(tenants) < MaxLeadTenants /\ CreateTenant(body, blankRow)
    \/ \E q \in ScoreQueries : ListLeads(q)

SpecScore == InitScore /\ [][NextScore]_vars

(***************************************************************************)
(* Phone lookup: tenants are stored under phone forms and looked up.       *)
(***************************************************************************)
T_LocalNumber == <<"7","0","9","5","2","8","8","9","5","0">>
T_TrunkForm == <<"0">> \o T_LocalNumber
T_IntlForm == <<"+","9","1"," ">> \o T_LocalNumber

\* the three forms of one subscriber number
SubscriberForms == {T_TrunkForm, T_IntlForm, T_LocalNumber}

\* the characters the lookup strips
Separators == {" ", "+", "-", "(", ")"}

InsertAt(s, i, c) == SubSeq(s, 1, i) \o <<c>> \o SubSeq(s, i + 1, Len(s))

\* s as it is or with one separator inserted anywhere
Decorated(s) ==
    {s} \cup {InsertAt(s, i, c) : i \in 0..Len(s), c \in Separators}

\* the forms of a digit string: decorated, with or without one leading 0,
\* and one form carrying every separator
FormsOf(d) ==
    Decorated(d) \cup Decorated(<<"0">> \o d)
        \cup { <<"+", "(", "0", ")", " ">> \o d \o <<"-">> }

\* short digit strings, one of them beginning with 0
DigitStrings == { <<"7">>, <<"0","7">> }

PhoneForms == UNION {FormsOf(d) : d \in DigitStrings} \cup SubscriberForms

\* bodies of POST /tenants: the form in phone, or in whatsapp_number next to
\* an unrelated phone
PhoneTenantBodies ==
    { [name |-> T_Asha, phone |-> f] : f \in PhoneForms }
        \cup { [name |-> T_Ravi, phone |-> N(9), whatsapp_number |-> f] :
                  f \in PhoneForms }

InitPhone ==
    /\ properties = <<>>
    /\ tenants \in InitialTenantFiles
    /\ clock = 0
    /\ leadsCsv = <<>>
    /\ dataset = <<>>
    /\ inflight = <<>>
    /\ response = NoResponse

NextPhone ==
    \/ \E body \in PhoneTenantBodies, blankRow \in BlankLineOutcomes :
           Len(tenants) < MaxPhoneTenants /\ CreateTenant(body, blankRow)
    \/ \E phone \in PhoneForms : GetTenantByPhone(phone)

SpecPhone == InitPhone /\ [][NextPhone]_vars

(***************************************************************************)
(* Properties of property search.                                          *)
(***************************************************************************)
IsMatchResponse == response.op = "match"

\* the property is in the result list
InResult(p) == \E j \in 1..Len(response.properties) : response.properties[j] = p

\* the constraints a query supplies
SuppliedConstraints(q) ==
    {c \in {"city", "locality", "bedrooms", "amenities"} : Truthy(q[c])}
        \cup (IF Truthy(q.budget_min) \/ Truthy(q.budget_max) THEN {"budget"} ELSE {})

\* the property satisfies the constraint c of the query
Satisfies(p, q, c) ==
    CASE c = "city"      -> cityMatches(p, q.city)
      [] c = "locality"  -> localityMatches(p, q.locality)
      [] c = "bedrooms"  -> bedroomsMatch(p, q.bedrooms)
      [] c = "budget"    -> budgetMatches(p, q.budget_min, q.budget_max)
      [] c = "amenities" -> amenitiesMatch(p, q.amenities)

\* C1: property search includes a candidate property if and only if no
\* constraint was supplied or the property satisfies at least one of the
\* supplied constraints
C1_RelaxedInclusion ==
    IsMatchResponse =>
        \A i \in 1..Len(response.allProperties) :
            LET p == response.allProperties[i]
                supplied == SuppliedConstraints(response.query)
            IN  InResult(p) <=>
                    (supplied = {} \/ \E c \in supplied : Satisfies(p, response.query, c))

\* C1 witness: a search with all five constraints supplied that includes a
\* candidate failing some constraint and excludes a candidate failing all
C1_Witness ==
    /\ IsMatchResponse
    /\ Cardinality(SuppliedConstraints(response.query)) = 5
    /\ \E i \in 1..Len(response.allProperties) :
           LET p == response.allProperties[i]
           IN  /\ InResult(p)
               /\ \E c \in SuppliedConstraints(response.query) :
                      ~Satisfies(p, response.query, c)
    /\ \E i \in 1..Len(response.allProperties) : ~InResult(response.allProperties[i])

\* the stored row is listed in the result: same fields, the identifiers
\* compared only when the row stores them
Listed(row) ==
    LET hasId == Truthy(Get(row, "property_code")) \/ Truthy(Get(row, "property_id"))
        m == mapFlatsToProperty(row, 0, 0)
        cols == IF hasId THEN PROPERTY_HEADERS
                ELSE PROPERTY_HEADERS \ {"property_id", "property_code"}
    IN  \E j \in 1..Len(response.properties) :
            \A c \in cols : Get(response.properties[j], c) = Get(m, c)

StatusOf(row) == Get(mapFlatsToProperty(row, 0, 0), "status")

\* C2 as claimed: with zero supplied constraints property search includes
\* every stored property, whatever its fields, status included
C2_Original ==
    (IsMatchResponse /\ SuppliedConstraints(response.query) = {}) =>
        \A i \in 1..Len(properties) : Listed(properties[i])

\* C2 amended: with zero supplied constraints property search includes every
\* stored property whose status is 'available', whatever its other fields,
\* and no other property
C2_AllAvailableIncluded ==
    (IsMatchResponse /\ SuppliedConstraints(response.query) = {}) =>
        /\ \A i \in 1..Len(properties) :
               Listed(properties[i]) <=> StatusOf(properties[i]) = T_available
        /\ response.count =
               Cardinality({i \in 1..Len(properties) : StatusOf(properties[i]) = T_available})

\* C2 witness: an unconstrained search over a store holding an available and
\* an occupied property
C2_Witness ==
    /\ IsMatchResponse
    /\ SuppliedConstraints(response.query) = {}
    /\ \E i \in 1..Len(properties) : StatusOf(properties[i]) = T_available
    /\ \E i \in 1..Len(properties) : StatusOf(properties[i]) = T_occupied
    /\ response.count = 1

\* a budget-only search
IsBudgetOnly ==
    IsMatchResponse /\ SuppliedConstraints(response.query) = {"budget"}

\* the band of C3 in tenths, a malformed bound read as the number zero ...
BandWithZero(p, q) ==
    LET rent == OrZero(parseFloat(Get(p, "rent"))).t
        lo   == IF Truthy(q.budget_min) THEN 8 * (OrZero(parseFloat(q.budget_min)).t \div 10)
                ELSE 0
    IN  /\ rent >= lo
        /\ Truthy(q.budget_max) => rent <= 12 * (OrZero(parseFloat(q.budget_max)).t \div 10)

\* ... or read as an absent bound
BandWithAbsent(p, q) ==
    LET rent == OrZero(parseFloat(Get(p, "rent"))).t
        lo   == parseFloat(q.budget_min)
        hi   == parseFloat(q.budget_max)
    IN  /\ (Truthy(q.budget_min) /\ lo.kind = "fin") => rent >= 8 * (lo.t \div 10)
        /\ (~Truthy(q.budget_min) \/ lo.kind # "fin") => rent >= 0
        /\ (Truthy(q.budget_max) /\ hi.kind = "fin") => rent <= 12 * (hi.t \div 10)

\* C3: the budget criterion is satisfied exactly when
\* 0.8*budget_min <= rent <= 1.2*budget_max, an unparsable rent counting as
\* 0, an absent budget_min as 0 and an absent budget_max as unbounded, a
\* malformed supplied bound being coerced to 0 or treated as absent
C3_BudgetBand ==
    IsBudgetOnly =>
        \/ \A i \in 1..Len(response.allProperties) :
               InResult(response.allProperties[i])
                   <=> BandWithZero(response.allProperties[i], response.query)
        \/ \A i \in 1..Len(response.allProperties) :
               InResult(response.allProperties[i])
                   <=> BandWithAbsent(response.allProperties[i], response.query)

\* numeric rent in tenths, unparsable as 0
RentOf(p) == OrZero(parseFloat(Get(p, "rent"))).t

\* C4: the result list is in non-decreasing order of numeric rent, an
\* unparsable rent counting as 0, and is a permutation of the included
\* properties
C4_SortedByRent ==
    IsMatchResponse =>
        /\ \A i, j \in 1..Len(response.properties) :
               i < j => RentOf(response.properties[i]) <= RentOf(response.properties[j])
        /\ \A i \in 1..Len(response.allProperties) :
               LET p == response.allProperties[i]
               IN  Cardinality({j \in 1..Len(response.properties) : response.properties[j] = p})
                     = Cardinality({k \in 1..Len(response.allProperties) :
                                       /\ response.allProperties[k] = p
                                       /\ isMatched(p, response.query)})
        /\ \A j \in 1..Len(response.properties) :
               \E k \in 1..Len(response.allProperties) :
                   response.allProperties[k] = response.properties[j]

\* C4 witness: a property with an unparsable rent was stored after one with a
\* positive rent and is listed before it
C4_Witness ==
    /\ IsMatchResponse
    /\ Len(response.allProperties) = 2
    /\ Len(response.properties) = 2
    /\ parseFloat(response.allProperties[2].rent) = NaN
    /\ RentOf(response.allProperties[1]) > 0
    /\ response.properties[1] = response.allProperties[2]
    /\ response.properties[2] = response.allProperties[1]


(***************************************************************************)
(* Properties of the lead view.                                            *)
(***************************************************************************)
IsLeadsResponse == response.op = "leads"

\* the lower-cased, trimmed items of a comma-separated list
Items(text) ==
    LET parts == split(toLowerCase(text), ",")
    IN  {trim(parts[i]) : i \in 1..Len(parts)}

Present(x) == x # Undefined /\ x # <<>>

\* the integer a numeric text denotes
IsNumeric(text) == Present(text) /\ parseFloat(text).kind = "fin"
ValueOf(text) == parseFloat(text).t \div 10

\* the four checks as the lead view is described
LocalityPasses(t, p) ==
    /\ Present(t.localities) /\ Present(Get(p, "locality"))
    /\ \E loc \in Items(t.localities) :
           \/ includes(toLowerCase(p.locality), loc)
           \/ includes(loc, toLowerCase(p.locality))

BudgetPasses(t, p) ==
    /\ IsNumeric(t.budget_min) /\ IsNumeric(t.budget_max) /\ IsNumeric(Get(p, "rent"))
    /\ LET lo   == ValueOf(t.budget_min)
           hi   == ValueOf(t.budget_max)
           rent == ValueOf(p.rent)
       IN  \* lo - (hi - lo) * 0.2 <= rent <= hi + (hi - lo) * 0.2, times five
           /\ 5 * lo - (hi - lo) <= 5 * rent
           /\ 5 * rent <= 5 * hi + (hi - lo)

BedroomsPass(t, p) ==
    /\ Present(t.bedrooms) /\ Present(Get(p, "bedrooms"))
    /\ t.bedrooms = p.bedrooms

AmenitiesPass(t, p) ==
    /\ Present(t.amenities) /\ Present(Get(p, "amenities"))
    /\ Items(t.amenities) \cap Items(p.amenities) # {}

PassingChecks(t, p) ==
    (IF LocalityPasses(t, p) THEN {"locality"} ELSE {})
        \cup (IF BudgetPasses(t, p) THEN {"budget"} ELSE {})
        \cup (IF BedroomsPass(t, p) THEN {"bedrooms"} ELSE {})
        \cup (IF AmenitiesPass(t, p) THEN {"amenities"} ELSE {})

\* positions in the pool of the properties matching the tenant
MatchingAt(t) ==
    {i \in 1..Len(response.ownerProperties) :
        PassingChecks(t, response.ownerProperties[i]) # {}}

\* a match_score text in tenths
ScoreTenths(text) ==
    IF Len(text) = 1 THEN 10 * DigitVal(text[1])
    ELSE 10 * DigitVal(text[1]) + DigitVal(text[3])

LeadIndices == 1..Len(response.leads)

\* C5: match_score is 0.3 with no matching property and min(0.9, 0.5 + 0.1*n)
\* with n >= 1 matching properties: 0.6 for n = 1, 0.9 for n >= 4,
\* non-decreasing in n and always within [0.3, 0.9]
C5_MatchScore ==
    IsLeadsResponse =>
        /\ \A k \in LeadIndices :
               LET n     == Cardinality(MatchingAt(response.leads[k].tenant))
                   score == ScoreTenths(response.leads[k].match_score)
               IN  /\ n = 0 => score = 3
                   /\ n >= 1 => score = (IF 5 + n <= 9 THEN 5 + n ELSE 9)
                   /\ n = 1 => response.leads[k].match_score = <<"0", ".", "6">>
                   /\ n >= 4 => response.leads[k].match_score = <<"0", ".", "9">>
                   /\ score >= 3 /\ score <= 9
        /\ \A k, m \in LeadIndices :
               Cardinality(MatchingAt(response.leads[k].tenant))
                   <= Cardinality(MatchingAt(response.leads[m].tenant))
               => ScoreTenths(response.leads[k].match_score)
                      <= ScoreTenths(response.leads[m].match_score)

\* C5 witness: a tenant with five matching properties scored 0.9 next to a
\* tenant with none scored 0.3
C5_Witness ==
    /\ IsLeadsResponse
    /\ \E k \in LeadIndices :
           /\ Cardinality(MatchingAt(response.leads[k].tenant)) >= 5
           /\ response.leads[k].match_score = <<"0", ".", "9">>
    /\ \E k \in LeadIndices :
           /\ Cardinality(MatchingAt(response.leads[k].tenant)) = 0
           /\ response.leads[k].match_score = <<"0", ".", "3">>

\* C6: a property is a matching property for a tenant if and only if at
\* least one of the four checks passes, a property passing several checks
\* counting once and a check with an empty side not passing
C6_AnyCheckMatches ==
    IsLeadsResponse =>
        \A k \in LeadIndices :
            response.leads[k].matching_properties_count
                = Cardinality(MatchingAt(response.leads[k].tenant))

\* C6 witness: the pool holds a property passing two checks and one passing
\* none, and the tenant has one matching property
C6_Witness ==
    /\ IsLeadsResponse
    /\ \E k \in LeadIndices :
           LET t == response.leads[k].tenant
           IN  /\ response.leads[k].matching_properties_count = 1
               /\ \E i \in 1..Len(response.ownerProperties) :
                      Cardinality(PassingChecks(t, response.ownerProperties[i])) >= 2
               /\ \E i \in 1..Len(response.ownerProperties) :
                      PassingChecks(t, response.ownerProperties[i]) = {}

\* the property object embedded in a lead
Embedded(p) ==
    [c \in {"property_id", "property_code", "title", "locality", "rent",
            "bedrooms", "area_sqft", "amenities"} |-> Get(p, c)]

\* C7: the best match of a lead is the first property of the pool, in
\* iteration order, that matches the tenant; with no matching property the
\* lead has an empty property_id and a null property
C7_FirstMatchIsBest ==
    IsLeadsResponse =>
        \A k \in LeadIndices :
            LET lead == response.leads[k]
                at   == MatchingAt(lead.tenant)
            IN  IF at = {}
                THEN lead.property_id = <<>> /\ lead.property = Null
                ELSE LET first == response.ownerProperties[SetMin(at)]
                     IN  /\ lead.property_id = first.property_id
                         /\ lead.property_code = first.property_code
                         /\ lead.property = Embedded(first)

\* C7 witness: the first property of the pool does not match, a later one
\* does and is the best match; another lead has no match
C7_Witness ==
    /\ IsLeadsResponse
    /\ \E k \in LeadIndices :
           LET at == MatchingAt(response.leads[k].tenant)
           IN  /\ at # {} /\ 1 \notin at
               /\ response.leads[k].property_id
                      = response.ownerProperties[SetMin(at)].property_id
    /\ \E k \in LeadIndices :
           response.leads[k].property = Null /\ Len(response.ownerProperties) > 0

\* a tenant for whom only the budget check can pass
BudgetOnly(t) ==
    ~Present(t.localities) /\ ~Present(t.bedrooms) /\ ~Present(t.amenities)

\* C8: the budget check passes exactly when budget_min, budget_max and rent
\* are present and parsable and
\* budget_min - range <= rent <= budget_max + range, range being
\* (budget_max - budget_min) * 0.2; otherwise it contributes nothing
C8_LeadBudgetBand ==
    IsLeadsResponse =>
        \A k \in LeadIndices :
            BudgetOnly(response.leads[k].tenant) =>
                response.leads[k].matching_properties_count
                    = Cardinality({i \in 1..Len(response.ownerProperties) :
                          BudgetPasses(response.leads[k].tenant,
                                       response.ownerProperties[i])})

\* C8 witness: for a tenant with budget 10 to 20 and nothing else, a rent
\* below budget_min but within the tolerance passes and a parsable rent above
\* the tolerance fails
C8_Witness ==
    /\ IsLeadsResponse
    /\ \E k \in LeadIndices :
           LET t == response.leads[k].tenant
           IN  /\ BudgetOnly(t)
               /\ IsNumeric(t.budget_min) /\ IsNumeric(t.budget_max)
               /\ response.leads[k].matching_properties_count = 1
               /\ \E i \in 1..Len(response.ownerProperties) :
                      LET p == response.ownerProperties[i]
                      IN  /\ BudgetPasses(t, p)
                          /\ ValueOf(p.rent) < ValueOf(t.budget_min)
               /\ \E i \in 1..Len(response.ownerProperties) :
                      LET p == response.ownerProperties[i]
                      IN  /\ IsNumeric(Get(p, "rent"))
                          /\ ~BudgetPasses(t, p)

(***************************************************************************)
(* Properties of the phone lookup.                                         *)
(***************************************************************************)
IsPhoneResponse == response.op = "tenantByPhone"

\* the phone and whatsapp_number a row of tenants.csv is read with
StoredNumbers(row) ==
    LET t == mapTenantsToTenant(row, 0, 0)
    IN  {x \in {Get(t, "phone"), Get(t, "whatsapp_number")} : x # Undefined}

\* the rows of tenants.csv holding one of the forms
RowsUnder(forms) ==
    {i \in 1..Len(tenants) : StoredNumbers(tenants[i]) \cap forms # {}}

\* some stored tenant holds one of the forms
StoredUnder(forms) == RowsUnder(forms) # {}

\* what identifies a tenant across reads: generated fields left out
IdentityOf(row) ==
    LET t == mapTenantsToTenant(row, 0, 0)
    IN  [c \in {"name", "phone", "whatsapp_number", "localities"} |-> Get(t, c)]

\* the lookup answered with the tenant holding one of the forms, the first
\* in file order when there are several
ResolvedTo(forms) ==
    /\ response.tenant # Null
    /\ response.status = 200
    /\ IdentityOf(response.tenant) = IdentityOf(tenants[SetMin(RowsUnder(forms))])

\* C9: with a tenant stored under "07095288950", "+91 7095288950" or
\* "7095288950", a lookup by any of the three forms resolves to that tenant
C9_PhoneIdentity ==
    (IsPhoneResponse /\ response.phone \in SubscriberForms
        /\ StoredUnder(SubscriberForms))
    => ResolvedTo(SubscriberForms)

\* the digit strings the lookup is exercised on
LookupDigitStrings == DigitStrings \cup {T_LocalNumber}

MaxNormClock == 3

T_T1 == <<"T","1">>
T_P1 == <<"P","1">>
T_A1 == <<"A","1">>
T_15000_20000 == <<"1","5","0","0","0","-","2","0","0","0","0">>
T_15000_sp_20000 == <<"1","5","0","0","0"," ","-"," ","2","0","0","0","0">>
T_18000 == <<"1","8","0","0","0">>
T_dash_20000 == <<"-","2","0","0","0","0">>

\* rows of a tenants.csv: canonical rows (with tenant_id), legacy rows, a
\* canonical header with an empty tenant_id cell, and the row of an empty line
NormalizerTenantRows ==
    { [tenant_id |-> T_T1],
      [tenant_id |-> T_T1, name |-> <<>>, city |-> <<>>, budget_min |-> <<>>,
       budget_max |-> <<>>, source |-> <<>>, created_at |-> <<>>],
      [tenant_id |-> T_T1, Name |-> T_Asha, Mobile |-> N(7), Budget |-> T_10_20,
       BHKtype |-> T_2BHK],
      [tenant_id |-> <<>>, name |-> T_Ravi, phone |-> N(7), budget_max |-> N(20)],
      [Name |-> T_Asha, Mobile |-> N(7), Locality |-> T_Gachi,
       Budget |-> T_15000_20000, BHKtype |-> T_2BHK],
      [Name |-> T_Asha, Budget |-> T_15000_sp_20000],
      [Name |-> T_Ravi, Budget |-> T_18000],
      [Name |-> T_Ravi, Budget |-> T_dash_20000],
      [Name |-> T_Ravi, Budget |-> <<>>],
      EmptyRow }

\* rows of a flats.csv: canonical rows (with property_id or property_code),
\* legacy rows and the row of an empty line
NormalizerPropertyRows ==
    { [property_id |-> T_P1],
      [property_code |-> T_A1],
      [property_id |-> T_P1, property_code |-> T_A1, city |-> <<>>, status |-> <<>>,
       rent |-> <<>>],
      [property_id |-> T_P1, Name |-> T_abc, Budget |-> N(10), Code |-> T_A1],
      [property_id |-> <<>>, property_code |-> <<>>, title |-> T_abc, rent |-> N(12)],
      [Name |-> T_abc, Mobile |-> N(7), Locality |-> T_Kond, Budget |-> N(10),
       BHKtype |-> N(2) \o T_spBHK, Amenities |-> T_Lift, SFT |-> N(90)],
      [Name |-> T_abc, Code |-> T_A1],
      EmptyRow }

\* mapTenantsToTenant(row), then mapTenantsToTenant of the result
NormalizeTenant ==
    /\ clock < MaxNormClock
    /\ tenants # <<>>
    /\ LET once == mapTenantsToTenant(tenants[1], clock, 1)
       IN  response' = [op |-> "normalizeTenant", input |-> tenants[1], once |-> once,
                        twice |-> mapTenantsToTenant(once, clock + 1, 1)]
    /\ clock' = clock + 1
    /\ UNCHANGED <<properties, tenants, leadsCsv, dataset, inflight>>

\* mapFlatsToProperty(row), then mapFlatsToProperty of the result
NormalizeProperty ==
    /\ clock < MaxNormClock
    /\ properties # <<>>
    /\ LET once == mapFlatsToProperty(properties[1], clock, 1)
       IN  response' = [op |-> "normalizeProperty", input |-> properties[1], once |-> once,
                        twice |-> mapFlatsToProperty(once, clock + 1, 1)]
    /\ clock' = clock + 1
    /\ UNCHANGED <<properties, tenants, leadsCsv, dataset, inflight>>

InitNormalize ==
    /\ properties \in {<<row>> : row \in NormalizerPropertyRows}
    /\ tenants \in {<<row>> : row \in NormalizerTenantRows}
    /\ leadsCsv = <<>>
    /\ dataset = <<>>
    /\ inflight = <<>>
    /\ clock = 0
    /\ response = NoResponse

NextNormalize ==
    \/ NormalizeTenant
    \/ NormalizeProperty

SpecNormalize == InitNormalize /\ [][NextNormalize]_vars

IsNormalizeTenant == response.op = "normalizeTenant"
IsNormalizeProperty == response.op = "normalizeProperty"

\* the row is already in canonical form, as the normalizer tests it
HasTenantId(row) == Truthy(Get(row, "tenant_id"))
HasPropertyKey(row) == Truthy(Get(row, "property_code")) \/ Truthy(Get(row, "property_id"))

\* C11: a row that already carries tenant_id (tenants) or property_id /
\* property_code (properties) is returned unchanged, and normalizing a
\* normalized record again returns it unchanged
C11_NormalizerIdempotent ==
    /\ IsNormalizeTenant =>
          /\ HasTenantId(response.input) => response.once = response.input
          /\ response.twice = response.once
    /\ IsNormalizeProperty =>
          /\ HasPropertyKey(response.input) => response.once = response.input
          /\ response.twice = response.once

\* a canonical tenant row that lacks fields and carries legacy columns has
\* been normalized
C11_Witness ==
    /\ IsNormalizeTenant
    /\ HasTenantId(response.input)
    /\ Get(response.input, "Budget") = T_10_20
    /\ Get(response.input, "city") = Undefined

\* the legacy row has the combined Budget column and no budget_min/budget_max
OnlyCombinedBudget(row) ==
    /\ ~HasTenantId(row)
    /\ Get(row, "Budget") # Undefined
    /\ Get(row, "budget_min") = Undefined
    /\ Get(row, "budget_max") = Undefined

DashAt(s) == {i \in 1..Len(s) : s[i] = "-"}

\* the text left / right of the first '-'
LeftOfDash(s) == SubSeq(s, 1, SetMin(DashAt(s)) - 1)
RightOfDash(s) == SubSeq(s, SetMin(DashAt(s)) + 1, Len(s))

\* C12: for a legacy tenant row whose only budget column is Budget, a Budget
\* with a '-' gives budget_min the trimmed text left of it and budget_max the
\* trimmed text right of it; a Budget without '-' gives budget_min the empty
\* string and budget_max the whole value
C12_BudgetSplit ==
    (IsNormalizeTenant /\ OnlyCombinedBudget(response.input)) =>
        LET budget == response.input["Budget"]
        IN  IF DashAt(budget) # {}
            THEN /\ response.once.budget_min = trim(LeftOfDash(budget))
                 /\ response.once.budget_max = trim(RightOfDash(budget))
            ELSE /\ response.once.budget_min = <<>>
                 /\ response.once.budget_max = budget

\* the columns from which the legacy branch of mapTenantsToTenant fills each
\* field other than tenant_id
TenantAliases ==
    [name            |-> {"name", "Name"},
     phone           |-> {"phone", "Mobile"},
     whatsapp_number |-> {"whatsapp_number", "phone", "Mobile"},
     email           |-> {"email"},
     city            |-> {"city"},
     localities      |-> {"localities", "Locality"},
     budget_min      |-> {"budget_min", "Budget"},
     budget_max      |-> {"budget_max", "Budget"},
     bedrooms        |-> {"bedrooms", "BHKtype"},
     amenities       |-> {"amenities", "Must Need amenities"},
     source          |-> {"source"},
     created_at      |-> {"created_at"}]

\* the same for mapFlatsToProperty, other than property_id and property_code
PropertyAliases ==
    [title     |-> {"title", "Name"},
     city      |-> {"city"},
     locality  |-> {"locality", "Locality"},
     rent      |-> {"rent", "Budget", "Price"},
     bedrooms  |-> {"bedrooms", "BHKtype"},
     area_sqft |-> {"area_sqft", "SFT"},
     amenities |-> {"amenities", "Amenities"},
     status    |-> {"status"},
     owner_id  |-> {"owner_id"}]

NoAliasPresent(row, aliases) == aliases \cap DOMAIN row = {}

\* C13: in the mapping of a legacy-layout row, every canonical field other
\* than the synthesized identifier none of whose column aliases is present
\* in the row is the empty string
C13_UnmatchedFieldsEmpty ==
    /\ (IsNormalizeTenant /\ ~HasTenantId(response.input)) =>
          \A f \in DOMAIN TenantAliases :
              NoAliasPresent(response.input, TenantAliases[f])
                  => response.once[f] = <<>>
    /\ (IsNormalizeProperty /\ ~HasPropertyKey(response.input)) =>
          \A f \in DOMAIN PropertyAliases :
              NoAliasPresent(response.input, PropertyAliases[f])
                  => response.once[f] = <<>>

(***************************************************************************)
(* Dataset upload: analyzeDataHealth on the parsed rows of an uploaded     *)
(* file.  A row maps its column names (texts) to cell texts.               *)
(***************************************************************************)
MaxDatasetRows == 2

T_name == <<"n","a","m","e">>
T_customer == <<"c","u","s","t","o","m","e","r">>
T_client == <<"c","l","i","e","n","t">>
T_phone == <<"p","h","o","n","e">>
T_mobile == <<"m","o","b","i","l","e">>
T_contact == <<"c","o","n","t","a","c","t">>
T_email == <<"e","m","a","i","l">>
T_mail == <<"m","a","i","l">>

\* Math.round(count / 3 * 100)
roundThirds(count) == (200 * count + 3) \div 6

\* a health analysis that looks at the column names of every row
analyzeDataHealth_everyRow(rows) ==
    IF Len(rows) = 0
    THEN [total_rows |-> 0, has_name |-> FALSE, has_phone |-> FALSE,
          has_email |-> FALSE, completeness_score |-> 0]
    ELSE LET keys     == {toLowerCase(k) : k \in UNION {DOMAIN rows[i] : i \in 1..Len(rows)}}
             hasName  == \E k \in keys : includes(k, T_name) \/ includes(k, T_customer)
                                             \/ includes(k, T_client)
             hasPhone == \E k \in keys : includes(k, T_phone) \/ includes(k, T_mobile)
                                             \/ includes(k, T_contact)
             hasEmail == \E k \in keys : includes(k, T_email) \/ includes(k, T_mail)
             count    == (IF hasName THEN 1 ELSE 0) + (IF hasPhone THEN 1 ELSE 0)
                             + (IF hasEmail THEN 1 ELSE 0)
         IN  [total_rows |-> Len(rows), has_name |-> hasName, has_phone |-> hasPhone,
              has_email |-> hasEmail, completeness_score |-> roundThirds(count)]

\* analyzeDataHealth
analyzeDataHealth(rows) ==
    IF Len(rows) = 0
    THEN [total_rows |-> 0, has_name |-> FALSE, has_phone |-> FALSE,
          has_email |-> FALSE, completeness_score |-> 0]
    ELSE LET firstRow == rows[1]
             keys     == {toLowerCase(k) : k \in DOMAIN firstRow}
             hasName  == \E k \in keys : includes(k, T_name) \/ includes(k, T_customer)
                                             \/ includes(k, T_client)
             hasPhone == \E k \in keys : includes(k, T_phone) \/ includes(k, T_mobile)
                                             \/ includes(k, T_contact)
             hasEmail == \E k \in keys : includes(k, T_email) \/ includes(k, T_mail)
             count    == (IF hasName THEN 1 ELSE 0) + (IF hasPhone THEN 1 ELSE 0)
                             + (IF hasEmail THEN 1 ELSE 0)
         IN  [total_rows |-> Len(rows), has_name |-> hasName, has_phone |-> hasPhone,
              has_email |-> hasEmail, completeness_score |-> roundThirds(count)]

\* column names of uploaded files
T_CustomerName == <<"C","u","s","t","o","m","e","r"," ","N","a","m","e">>
T_Mobile == <<"M","o","b","i","l","e">>
T_EmailAddress == <<"E","m","a","i","l"," ","A","d","d","r","e","s","s">>
T_id == <<"i","d">>
T_value == <<"v","a","l","u","e">>
T_CLIENT == <<"C","L","I","E","N","T">>
T_MailTo == <<"M","a","i","l"," ","t","o">>

ColumnNames == {T_CustomerName, T_Mobile, T_EmailAddress, T_id, T_value, T_CLIENT,
                T_MailTo}

\* cell texts: empty, a number, and a text that reads like a column name
CellTexts == {<<>>, N(7), T_email}

\* the rows a file can hold: any set of columns, every cell with the same text
DatasetFirstRows == {[k \in names |-> cell] : names \in SUBSET ColumnNames, cell \in CellTexts}

\* later rows; sheet_to_json omits empty cells, so rows of one file can have
\* different keys
DatasetLaterRows == {[k \in {T_Mobile, T_EmailAddress} |-> N(7)],
                     [k \in {T_CLIENT} |-> T_email]}

RECURSIVE LaterRows(_)
LaterRows(n) ==
    IF n = 0 THEN {<<>>}
    ELSE LaterRows(n - 1)
           \cup {Append(rows, row) : rows \in {r \in LaterRows(n - 1) : Len(r) = n - 1},
                                     row \in DatasetLaterRows}

Datasets == {<<>>} \cup {<<first>> \o rest : first \in DatasetFirstRows,
                                            rest \in LaterRows(MaxDatasetRows - 1)}

\* the analysis step of the dataset upload handler
AnalyzeDataHealth ==
    /\ response.op = "none"
    /\ response' = [op |-> "analyzeDataHealth", data_health |-> analyzeDataHealth(dataset)]
    /\ UNCHANGED <<properties, tenants, leadsCsv, dataset, inflight, clock>>

InitHealth ==
    /\ properties = <<>>
    /\ tenants = <<>>
    /\ leadsCsv = <<>>
    /\ dataset \in Datasets
    /\ inflight = <<>>
    /\ clock = 0
    /\ response = NoResponse

NextHealth == AnalyzeDataHealth

SpecHealth == InitHealth /\ [][NextHealth]_vars

IsHealthResponse == response.op = "analyzeDataHealth"

\* a column name contains one of the words, ignoring case
NameHas(name, words) == \E w \in words : includes(toLowerCase(name), w)

TrueFlags(h) == Cardinality({f \in {"has_name", "has_phone", "has_email"} : h[f]})

\* the one-row dataset with the given column names and empty cells
Headings(names) == <<[k \in names |-> <<>>]>>

\* the statement as given: the whole output is determined by the column
\* names of the first row
C14_Original ==
    (IsHealthResponse /\ dataset # <<>>) =>
        response.data_health = analyzeDataHealth(Headings(DOMAIN dataset[1]))

\* C14: apart from total_rows, which is the number of rows, the output of the
\* analyzer depends only on the column names of the first row: the flags come
\* from lower-cased substring tests on those names, completeness_score is
\* round(100 * k / 3) for k true flags (one of 0, 33, 67, 100), and an empty
\* row set yields all flags false and score 0
C14_HealthFromHeadings ==
    IsHealthResponse =>
        LET h == response.data_health
        IN  /\ h.total_rows = Len(dataset)
            /\ h.completeness_score = roundThirds(TrueFlags(h))
            /\ h.completeness_score \in {0, 33, 67, 100}
            /\ dataset = <<>> =>
                  /\ ~h.has_name /\ ~h.has_phone /\ ~h.has_email
                  /\ h.completeness_score = 0
            /\ dataset # <<>> =>
                  LET names == DOMAIN dataset[1]
                      g     == analyzeDataHealth(Headings(names))
                  IN  /\ h.has_name = \E n \in names : NameHas(n, {T_name, T_customer, T_client})
                      /\ h.has_phone = \E n \in names : NameHas(n, {T_phone, T_mobile, T_contact})
                      /\ h.has_email = \E n \in names : NameHas(n, {T_email, T_mail})
                      /\ h.has_name = g.has_name
                      /\ h.has_phone = g.has_phone
                      /\ h.has_email = g.has_email
                      /\ h.completeness_score = g.completeness_score

\* a file of two rows has been analyzed whose first row has an id column
\* only, with a cell reading "email", and whose second row has a Mobile column
C14_Witness ==
    /\ IsHealthResponse
    /\ Len(dataset) = 2
    /\ DOMAIN dataset[1] = {T_id}
    /\ dataset[1][T_id] = T_email
    /\ T_Mobile \in DOMAIN dataset[2]
    /\ response.data_health.completeness_score = 0

(***************************************************************************)
(* The property catalogue: csvStorage.getPropertyById, getPropertyByCode,  *)
(* updateProperty, deleteProperty and the handlers of /properties that     *)
(* read, change, upload and import properties.                             *)
(***************************************************************************)
MaxCatalogProps == 2
MaxCatalogClock == 3

\* {...a, ...b}
Merge(a, b) == [c \in DOMAIN a \cup DOMAIN b |-> IF c \in DOMAIN b THEN b[c] ELSE a[c]]

\* xs.slice(0, n)
slice0(xs, n) == SubSeq(xs, 1, IF n < Len(xs) THEN n ELSE Len(xs))

\* parseInt(s, 10) of a text of decimal digits
RECURSIVE parseInt(_)
parseInt(s) ==
    IF s = <<>> THEN 0
    ELSE 10 * parseInt(SubSeq(s, 1, Len(s) - 1))
           + (CHOOSE d \in 0..9 : Digits[d + 1] = s[Len(s)])

\* csvStorage.getPropertyById
getPropertyById(propertyId, now) ==
    LET mapped == mappedProperties(now)
        hits   == {i \in 1..Len(mapped) : Get(mapped[i], "property_id") = propertyId}
    IN  IF hits = {} THEN Null ELSE mapped[SetMin(hits)]

\* csvStorage.getPropertyByCode
getPropertyByCode(propertyCode, now) ==
    LET mapped == mappedProperties(now)
        hits   == {i \in 1..Len(mapped) :
                      OptLower(Get(mapped[i], "property_code")) = OptLower(propertyCode)}
    IN  IF hits = {} THEN Null ELSE mapped[SetMin(hits)]

\* csvStorage.createProperty on the given content of flats.csv: the content
\* it writes
createProperty(file, propertyData, now) ==
    LET mapped == [i \in 1..Len(file) |-> mapFlatsToProperty(file[i], now, i)]
    IN  writeCSV(Append(mapped, newPropertyOf(propertyData, now, Len(file) + 1)),
                 PROPERTY_HEADERS)

\* csvStorage.updateProperty: the content written (the file is left alone
\* when no property has the id) and the value returned, which is the row as
\* read from the file before the update
updateProperty(propertyId, updates, now) ==
    LET mapped == mappedProperties(now)
        hits   == {i \in 1..Len(mapped) : Get(mapped[i], "property_id") = propertyId}
        index  == SetMin(hits)
    IN  IF hits = {} THEN [file |-> properties, returned |-> Null]
        ELSE [file     |-> writeCSV([mapped EXCEPT ![index] =
                                         Merge(Merge(mapped[index], updates),
                                               [updated_at |-> DecimalText(now)])],
                                    PROPERTY_HEADERS),
              returned |-> properties[index]]

\* deleteProperty removing only the first row stored under the id
deleteProperty_firstOnly(propertyId, now) ==
    LET mapped == mappedProperties(now)
        hits   == {i \in 1..Len(mapped) : Get(mapped[i], "property_id") = propertyId}
    IN  writeCSV([i \in 1..(Len(mapped) - 1) |->
                     IF i < SetMin(hits) THEN mapped[i] ELSE mapped[i + 1]],
                 PROPERTY_HEADERS)

\* csvStorage.deleteProperty: the content written
deleteProperty(propertyId, now) ==
    LET keep(p) == Get(p, "property_id") # propertyId
    IN  writeCSV(FilterSeq(keep, mappedProperties(now)), PROPERTY_HEADERS)

\* propertiesRouter.get('/')
ListProperties(q) ==
    LET filters == [owner_id |-> IF Truthy(q.owner_id) THEN q.owner_id ELSE Undefined,
                    city     |-> Undefined,
                    status   |-> IF Truthy(q.status) THEN q.status ELSE Undefined]
        found   == getProperties(filters, clock)
        listed  == IF Truthy(q.limit) THEN slice0(found, parseInt(q.limit))
                   ELSE IF Truthy(q.owner_id) THEN slice0(found, 5)
                   ELSE found
    IN  /\ clock' = ReadClock
        /\ response' = [op |-> "properties", status |-> 200, query |-> q,
                        properties |-> listed, count |-> Len(listed)]
        /\ UNCHANGED <<properties, tenants, leadsCsv, dataset, inflight>>

\* the property_ids a client holds from the response it has just received
IdsRead ==
    IF response.op = "properties"
    THEN {Get(response.properties[k], "property_id") : k \in 1..Len(response.properties)}
             \ {Undefined}
    ELSE {}

\* the property of the last response that was returned under the id
ReadAs(propertyId) ==
    IF propertyId \in IdsRead
    THEN response.properties[SetMin({k \in 1..Len(response.properties) :
                                        Get(response.properties[k], "property_id") = propertyId})]
    ELSE Null

\* propertiesRouter.get('/:propertyId')
GetPropertyById(propertyId) ==
    LET property == getPropertyById(propertyId, clock)
    IN  /\ clock' = ReadClock
        /\ response' = [op |-> "propertyById", propertyId |-> propertyId,
                        readAs |-> ReadAs(propertyId),
                        status |-> IF property = Null THEN 404 ELSE 200,
                        property |-> property]
        /\ UNCHANGED <<properties, tenants, leadsCsv, dataset, inflight>>

\* propertiesRouter.get('/code/:propertyCode')
GetPropertyByCode(propertyCode) ==
    LET property == getPropertyByCode(propertyCode, clock)
    IN  /\ clock' = ReadClock
        /\ response' = [op |-> "propertyByCode", propertyCode |-> propertyCode,
                        status |-> IF property = Null THEN 404 ELSE 200,
                        property |-> property]
        /\ UNCHANGED <<properties, tenants, leadsCsv, dataset, inflight>>

\* the clock after two reads of flats.csv
TwoReads == IF PropertiesNeedIds THEN clock + 2 ELSE clock

\* propertiesRouter.put('/:propertyId'): getPropertyById, then updateProperty,
\* which reads the file again
UpdateProperty(propertyId, body) ==
    LET property == getPropertyById(propertyId, clock)
        updated  == updateProperty(propertyId, body, ReadClock)
    IN  IF property = Null
        THEN /\ clock' = ReadClock
             /\ response' = [op |-> "updateProperty", propertyId |-> propertyId,
                             readAs |-> ReadAs(propertyId), status |-> 404,
                             property |-> Null]
             /\ UNCHANGED <<properties, tenants, leadsCsv, dataset, inflight>>
        ELSE /\ properties' = updated.file
             /\ clock' = TwoReads
             /\ response' = [op |-> "updateProperty", propertyId |-> propertyId,
                             readAs |-> ReadAs(propertyId), status |-> 200,
                             property |-> updated.returned]
             /\ UNCHANGED <<tenants, leadsCsv, dataset, inflight>>

\* propertiesRouter.delete('/:propertyId'): getPropertyById, then
\* deleteProperty, which reads the file again
DeleteProperty(propertyId) ==
    LET property == getPropertyById(propertyId, clock)
    IN  IF property = Null
        THEN /\ clock' = ReadClock
             /\ response' = [op |-> "deleteProperty", propertyId |-> propertyId,
                             readAs |-> ReadAs(propertyId), status |-> 404]
             /\ UNCHANGED <<properties, tenants, leadsCsv, dataset, inflight>>
        ELSE /\ properties' = deleteProperty(propertyId, ReadClock)
             /\ clock' = TwoReads
             /\ response' = [op |-> "deleteProperty", propertyId |-> propertyId,
                             readAs |-> ReadAs(propertyId), status |-> 200]
             /\ UNCHANGED <<tenants, leadsCsv, dataset, inflight>>

\* data['BHKtype']?.replace(' BHK', '')
bhkOf(data) ==
    IF Get(data, "BHKtype") = Undefined THEN Undefined
    ELSE removeFirst(data["BHKtype"], T_spBHK)

\* the property the import handler makes of a row of database/flats.csv
importedProperty(data, userId, now, i) ==
    [property_code |-> Or(Get(data, "property_code"),
                          Or(Get(data, "Code"), GenId(T_PROP, now, i))),
     title         |-> Or(Get(data, "title"), Or(Get(data, "Name"), <<>>)),
     city          |-> Or(Get(data, "city"), T_Hyderabad),
     locality      |-> Or(Get(data, "locality"), Or(Get(data, "Locality"), <<>>)),
     rent          |-> Or(Get(data, "rent"),
                          Or(Get(data, "Budget"), Or(Get(data, "Price"), <<>>))),
     bedrooms      |-> Or(Get(data, "bedrooms"), Or(bhkOf(data), <<>>)),
     area_sqft     |-> Or(Get(data, "area_sqft"), Or(Get(data, "SFT"), <<>>)),
     amenities     |-> Or(Get(data, "amenities"), Or(Get(data, "Amenities"), <<>>)),
     status        |-> T_available,
     owner_id      |-> userId]

\* the property the upload handler makes of a row of the uploaded file
uploadedProperty(data, userId) ==
    [property_code |-> Or(Get(data, "property_code"),
                          Or(Get(data, "Property Code"), Or(Get(data, "Code"), <<>>))),
     title         |-> Or(Get(data, "title"),
                          Or(Get(data, "Title"), Or(Get(data, "Name"), <<>>))),
     city          |-> Or(Get(data, "city"), Or(Get(data, "City"), T_Hyderabad)),
     locality      |-> Or(Get(data, "locality"),
                          Or(Get(data, "Locality"), Or(Get(data, "Area"), <<>>))),
     rent          |-> Or(Get(data, "rent"),
                          Or(Get(data, "Rent"),
                             Or(Get(data, "Budget"), Or(Get(data, "Price"), <<>>)))),
     bedrooms      |-> Or(Get(data, "bedrooms"),
                          Or(Get(data, "Bedrooms"),
                             Or(bhkOf(data), Or(Get(data, "BHK"), <<>>)))),
     area_sqft     |-> Or(Get(data, "area_sqft"),
                          Or(Get(data, "Area (sqft)"),
                             Or(Get(data, "SFT"), Or(Get(data, "Area"), <<>>)))),
     amenities     |-> Or(Get(data, "amenities"), Or(Get(data, "Amenities"), <<>>)),
     status        |-> Or(Get(data, "status"), Or(Get(data, "Status"), T_available)),
     owner_id      |-> userId]

\* for (const propertyData of properties) createProperty(propertyData): the
\* content of flats.csv after the loop
RECURSIVE createAll(_, _, _)
createAll(file, datas, now) ==
    IF datas = <<>> THEN file
    ELSE createAll(createProperty(file, Head(datas), now), Tail(datas), now)

\* the properties returned by the creations of the loop
createdAll(file, datas, now) ==
    [k \in 1..Len(datas) |-> newPropertyOf(datas[k], now, Len(file) + k)]

\* propertiesRouter.post('/import-database'), and post('/upload') with
\* use_database_file = 'true': every row of database/flats.csv, the file the
\* store keeps its properties in, is created as a new property
ImportDatabase ==
    LET datas == [i \in 1..Len(properties) |->
                     importedProperty(properties[i], T_guest, clock, i)]
    IN  IF Len(datas) = 0
        THEN /\ response' = [op |-> "importDatabase", status |-> 400]
             /\ UNCHANGED <<properties, tenants, leadsCsv, dataset, inflight, clock>>
        ELSE /\ properties' = createAll(properties, datas, clock)
             /\ clock' = clock + 1
             /\ response' = [op |-> "importDatabase", status |-> 201,
                             properties |-> createdAll(properties, datas, clock),
                             total |-> Len(datas), failed |-> 0]
             /\ UNCHANGED <<tenants, leadsCsv, dataset, inflight>>

\* propertiesRouter.post('/upload') with a file
UploadProperties(file) ==
    LET datas == [i \in 1..Len(file) |-> uploadedProperty(file[i], T_guest)]
    IN  IF Len(datas) = 0
        THEN /\ response' = [op |-> "upload", status |-> 400]
             /\ UNCHANGED <<properties, tenants, leadsCsv, dataset, inflight, clock>>
        ELSE /\ properties' = createAll(properties, datas, clock)
             /\ clock' = clock + 1
             /\ response' = [op |-> "upload", status |-> 201,
                             properties |-> createdAll(properties, datas, clock),
                             total |-> Len(datas), failed |-> 0]
             /\ UNCHANGED <<tenants, leadsCsv, dataset, inflight>>

T_a1 == <<"a","1">>
T_B2 == <<"B","2">>

\* bodies of POST /properties: with and without a property_code, one with
\* the identifier supplied by the client
CatalogPropertyBodies ==
    { [property_code |-> T_A1, city |-> T_Hyd, rent |-> N(12)],
      [property_code |-> T_a1, city |-> T_Hyd, rent |-> N(13)],
      [property_id |-> T_P1, property_code |-> T_B2, city |-> T_Che],
      [city |-> T_Che, rent |-> N(10)] }

\* bodies of PUT /properties/:propertyId
CatalogUpdateBodies ==
    { [status |-> T_occupied],
      [property_code |-> T_a1],
      [property_id |-> T_P1] }

\* uploaded CSV files: one in the upload handler's column names, one empty
UploadedFiles ==
    { << [Name |-> T_abc, City |-> T_Hyd, Rent |-> N(12)] @@ ("Property Code" :> T_a1) >>,
      <<>> }

\* a flats.csv in the legacy column layout with property codes
CodedLegacyFlats ==
    << [Name |-> T_abc, Code |-> T_A1, Mobile |-> N(7), Locality |-> T_Kond,
        Budget |-> N(10), BHKtype |-> N(2) \o T_spBHK] >>

InitialCatalogFlats == {<<>>, CodedLegacyFlats}

\* queries of GET /properties
CatalogQueries ==
    { [owner_id |-> Undefined, status |-> Undefined, limit |-> Undefined],
      [owner_id |-> T_guest, status |-> T_available, limit |-> Undefined],
      [owner_id |-> Undefined, status |-> Undefined, limit |-> N(1)] }

\* identifiers and codes a client may ask for without having read them
CatalogIds == {T_P1}
CatalogCodes == {T_a1, T_B2}

InitCatalog ==
    /\ properties \in InitialCatalogFlats
    /\ tenants = <<>>
    /\ leadsCsv = <<>>
    /\ dataset = <<>>
    /\ inflight = <<>>
    /\ clock = 0
    /\ response = NoResponse

NextCatalog ==
    \/ \E body \in CatalogPropertyBodies :
           /\ Len(properties) < MaxCatalogProps
           /\ clock < MaxCatalogClock
           /\ CreateProperty(body)
    \/ \E q \in CatalogQueries : ReadClock <= MaxCatalogClock /\ ListProperties(q)
    \/ \E id \in IdsRead \cup CatalogIds :
           ReadClock <= MaxCatalogClock /\ GetPropertyById(id)
    \/ \E code \in CatalogCodes :
           ReadClock <= MaxCatalogClock /\ GetPropertyByCode(code)
    \/ \E id \in IdsRead \cup CatalogIds, body \in CatalogUpdateBodies :
           TwoReads <= MaxCatalogClock /\ UpdateProperty(id, body)
    \/ \E id \in IdsRead \cup CatalogIds :
           TwoReads <= MaxCatalogClock /\ DeleteProperty(id)
    \/ /\ 2 * Len(properties) <= MaxCatalogProps
       /\ clock < MaxCatalogClock
       /\ ImportDatabase
    \/ \E file \in UploadedFiles :
           /\ Len(properties) + Len(file) <= MaxCatalogProps
           /\ clock < MaxCatalogClock
           /\ UploadProperties(file)

SpecCatalog == InitCatalog /\ [][NextCatalog]_vars

\* the stored properties as every read presents them
StoredProperties == mappedProperties(clock)

\* C15: no two stored properties have property_codes that are equal ignoring
\* case (properties without a code aside), so that getPropertyByCode
\* identifies at most one property
C15_UniqueCodes ==
    \A i, j \in 1..Len(StoredProperties) :
        (/\ i # j
         /\ Truthy(Get(StoredProperties[i], "property_code"))
         /\ Truthy(Get(StoredProperties[j], "property_code")))
            => toLowerCase(StoredProperties[i].property_code)
                  # toLowerCase(StoredProperties[j].property_code)

\* C16: the property_id under which a stored property was returned by a read
\* identifies that same property in a later getPropertyById, updateProperty
\* and deleteProperty call, for rows stored in the canonical layout and for
\* rows stored in the legacy layout alike
C16_StableId ==
    (/\ response.op \in {"propertyById", "updateProperty", "deleteProperty"}
     /\ response.readAs # Null)
        => /\ response.status = 200
           /\ response.op = "propertyById" => response.property = response.readAs

(***************************************************************************)
(* Property status: available and occupied properties are created, then    *)
(* searched, listed as lead matches and read by id.                        *)
(***************************************************************************)
MaxStatusProps == 2
MaxStatusTenants == 1

StatusPropertyBodies ==
    { [city |-> T_Hyd, locality |-> T_Gachi, rent |-> N(12), bedrooms |-> N(2),
       status |-> T_occupied],
      [city |-> T_Hyd, locality |-> T_Kond, rent |-> N(13), bedrooms |-> N(3)] }

StatusTenantBodies ==
    { [name |-> T_Asha, phone |-> N(7), localities |-> T_Gachi,
       budget_min |-> N(10), budget_max |-> N(20), bedrooms |-> N(2)] }

StatusMatchQueries ==
    { Query(Undefined, Undefined, Undefined, Undefined, Undefined, Undefined),
      Query(T_Hyd, T_Gachi, N(2), Undefined, Undefined, Undefined) }

StatusListQueries ==
    { [owner_id |-> Undefined, status |-> Undefined, limit |-> Undefined] }

StatusLeadQueries ==
    { [owner_id |-> Undefined, status |-> Undefined] }

InitStatus ==
    /\ properties = <<>>
    /\ tenants = <<>>
    /\ leadsCsv = <<>>
    /\ dataset = <<>>
    /\ inflight = <<>>
    /\ clock = 0
    /\ response = NoResponse

NextStatus ==
    \/ \E body \in StatusPropertyBodies :
           Len(properties) < MaxStatusProps /\ CreateProperty(body)
    \/ \E body \in StatusTenantBodies, blankRow \in BlankLineOutcomes :
           Len(tenants) < MaxStatusTenants /\ CreateTenant(body, blankRow)
    \/ \E q \in StatusMatchQueries : MatchProperties(q)
    \/ \E q \in StatusLeadQueries : ListLeads(q)
    \/ \E q \in StatusListQueries : ListProperties(q)
    \/ \E id \in IdsRead : GetPropertyById(id)

SpecStatus == InitStatus /\ [][NextStatus]_vars

IsAvailable(p) == Get(p, "status") = T_available

\* C17: a property whose status is not 'available' is never returned by
\* property search, never counted among a tenant's matching properties in the
\* lead view and never chosen as a lead's best match, and it stays readable
\* by id
C17_UnavailableExcluded ==
    /\ response.op = "match" =>
          \A k \in 1..Len(response.properties) : IsAvailable(response.properties[k])
    /\ IsLeadsResponse =>
          \A k \in LeadIndices :
              LET lead == response.leads[k]
                  at   == MatchingAt(lead.tenant)
              IN  /\ lead.matching_properties_count
                        = Cardinality({i \in at : IsAvailable(response.ownerProperties[i])})
                  /\ lead.property # Null
                        => IsAvailable(response.ownerProperties[SetMin(at)])
    /\ (response.op = "propertyById" /\ response.readAs # Null) =>
          response.status = 200 /\ response.property = response.readAs

(***************************************************************************)
(* Stored leads (leads.csv): csvStorage.getLeadById, createLead and        *)
(* updateLead, tenants by id, and the handlers that read and write them.   *)
(***************************************************************************)
LEAD_HEADERS == {"lead_id", "tenant_id", "property_id", "property_code", "channel",
                 "call_recording_url", "transcript", "nlp_extracted", "match_score",
                 "owner_notified", "status", "created_at", "updated_at"}

T_braces == <<"{","}">>
T_claimed == <<"c","l","a","i","m","e","d">>
T_true == <<"t","r","u","e">>
T_answered == <<"a","n","s","w","e","r","e","d">>
T_completed == <<"c","o","m","p","l","e","t","e","d">>
T_no_answer == <<"n","o","_","a","n","s","w","e","r">>

\* csvStorage.getLeadById: leads.csv is read as written, with no mapping
getLeadById(leadId) ==
    LET hits == {i \in 1..Len(leadsCsv) : Get(leadsCsv[i], "lead_id") = leadId}
    IN  IF hits = {} THEN Null ELSE leadsCsv[SetMin(hits)]

\* csvStorage.createLead: the record built from leadData; request bodies
\* carry strings only, and a missing nlp_extracted is JSON.stringify({})
newLeadOf(leadData, now, i) ==
    [lead_id            |-> Or(Get(leadData, "lead_id"), GenId(T_lead, now, i)),
     tenant_id          |-> Or(Get(leadData, "tenant_id"), <<>>),
     property_id        |-> Or(Get(leadData, "property_id"), <<>>),
     property_code      |-> Or(Get(leadData, "property_code"), <<>>),
     channel            |-> Or(Get(leadData, "channel"), T_call),
     call_recording_url |-> Or(Get(leadData, "call_recording_url"), <<>>),
     transcript         |-> Or(Get(leadData, "transcript"), <<>>),
     nlp_extracted      |-> IF Get(leadData, "nlp_extracted") = Undefined THEN T_braces
                            ELSE leadData["nlp_extracted"],
     match_score        |-> Or(Get(leadData, "match_score"), <<>>),
     owner_notified     |-> Or(Get(leadData, "owner_notified"), T_false),
     status             |-> Or(Get(leadData, "status"), T_new),
     created_at         |-> DecimalText(now),
     updated_at         |-> DecimalText(now)]

\* csvStorage.createLead: the content written
createLead(leadData, now) ==
    writeCSV(Append(leadsCsv, newLeadOf(leadData, now, Len(leadsCsv) + 1)), LEAD_HEADERS)

\* updateLead writing the merged record over the first row of leads.csv
updateLead_firstRow(leadId, updates, now) ==
    LET hits   == {i \in 1..Len(leadsCsv) : Get(leadsCsv[i], "lead_id") = leadId}
        merged == Merge(Merge(leadsCsv[SetMin(hits)], updates),
                        [updated_at |-> DecimalText(now)])
    IN  IF hits = {} THEN [file |-> leadsCsv, returned |-> Null]
        ELSE [file     |-> writeCSV([leadsCsv EXCEPT ![1] = merged], LEAD_HEADERS),
              returned |-> merged]

\* csvStorage.updateLead: the content written (the file is left alone when no
\* lead has the id) and the value returned, which is the merged record
updateLead(leadId, updates, now) ==
    LET hits   == {i \in 1..Len(leadsCsv) : Get(leadsCsv[i], "lead_id") = leadId}
        index  == SetMin(hits)
        merged == Merge(Merge(leadsCsv[index], updates), [updated_at |-> DecimalText(now)])
    IN  IF hits = {} THEN [file |-> leadsCsv, returned |-> Null]
        ELSE [file     |-> writeCSV([leadsCsv EXCEPT ![index] = merged], LEAD_HEADERS),
              returned |-> merged]

\* a lookup by id that throws when no tenant has the id
getTenantById_throwing(tenantId, now) ==
    LET mapped == mappedTenants(now)
        hits   == {i \in 1..Len(mapped) : Get(mapped[i], "tenant_id") = tenantId}
    IN  IF hits = {} THEN TypeError ELSE mapped[SetMin(hits)]

\* csvStorage.getTenantById
getTenantById(tenantId, now) ==
    LET mapped == mappedTenants(now)
        hits   == {i \in 1..Len(mapped) : Get(mapped[i], "tenant_id") = tenantId}
    IN  IF hits = {} THEN Null ELSE mapped[SetMin(hits)]

\* csvStorage.updateTenant: the content written (the file is left alone when
\* no tenant has the id) and the value returned, which is the row as read
\* from the file before the update
updateTenant(tenantId, updates, now) ==
    LET mapped == mappedTenants(now)
        hits   == {i \in 1..Len(mapped) : Get(mapped[i], "tenant_id") = tenantId}
        index  == SetMin(hits)
    IN  IF hits = {} THEN [file |-> tenants, returned |-> Null]
        ELSE [file     |-> writeCSV([mapped EXCEPT ![index] =
                                         Merge(Merge(mapped[index], updates),
                                               [updated_at |-> DecimalText(now)])],
                                    TENANT_HEADERS),
              returned |-> tenants[index]]

\* the tenant and the property joined to a lead, and the clock after the
\* reads of tenants.csv and flats.csv this takes
joinOf(lead) ==
    LET readsTenants    == Truthy(Get(lead, "tenant_id"))
        readsProperties == Truthy(Get(lead, "property_id"))
    IN  [tenant   |-> IF readsTenants THEN getTenantById(lead["tenant_id"], clock)
                      ELSE Null,
         property |-> IF readsProperties THEN getPropertyById(lead["property_id"], clock)
                      ELSE Null,
         clock    |-> IF (readsTenants /\ TenantsNeedIds)
                            \/ (readsProperties /\ PropertiesNeedIds)
                      THEN clock + 1 ELSE clock]

\* leadsRouter.get('/:leadId')
GetLeadById(leadId) ==
    LET lead == getLeadById(leadId)
        join == joinOf(lead)
    IN  IF lead = Null
        THEN /\ response' = [op |-> "leadById", leadId |-> leadId, status |-> 404]
             /\ UNCHANGED <<properties, tenants, leadsCsv, dataset, inflight, clock>>
        ELSE IF join.tenant = TypeError \/ join.property = TypeError
        THEN /\ response' = [op |-> "leadById", leadId |-> leadId, status |-> 500]
             /\ clock' = join.clock
             /\ UNCHANGED <<properties, tenants, leadsCsv, dataset, inflight>>
        ELSE /\ response' = [op |-> "leadById", leadId |-> leadId, status |-> 200,
                             lead |-> Merge(lead, [tenant   |-> join.tenant,
                                                   property |-> join.property])]
             /\ clock' = join.clock
             /\ UNCHANGED <<properties, tenants, leadsCsv, dataset, inflight>>

\* callsRouter.get('/:callId')
GetCallById(callId) ==
    LET lead == getLeadById(callId)
        join == joinOf(lead)
    IN  IF lead = Null
        THEN /\ response' = [op |-> "callById", leadId |-> callId, status |-> 404]
             /\ UNCHANGED <<properties, tenants, leadsCsv, dataset, inflight, clock>>
        ELSE IF join.tenant = TypeError \/ join.property = TypeError
        THEN /\ response' = [op |-> "callById", leadId |-> callId, status |-> 500]
             /\ clock' = join.clock
             /\ UNCHANGED <<properties, tenants, leadsCsv, dataset, inflight>>
        ELSE /\ response' =
                    [op |-> "callById", leadId |-> callId, status |-> 200,
                     lead |-> [id              |-> Get(lead, "lead_id"),
                               conversation_id |-> Get(lead, "lead_id"),
                               tenant_id       |-> Get(lead, "tenant_id"),
                               property_id     |-> Get(lead, "property_id"),
                               channel         |-> Or(Get(lead, "channel"), T_call),
                               transcript      |-> Get(lead, "transcript"),
                               recording_url   |-> Get(lead, "call_recording_url"),
                               status          |-> Get(lead, "status"),
                               match_score     |-> Get(lead, "match_score"),
                               nlp_extracted   |-> Get(lead, "nlp_extracted"),
                               tenant          |-> join.tenant,
                               property        |-> join.property,
                               created_at      |-> Get(lead, "created_at"),
                               updated_at      |-> Get(lead, "updated_at")]]
             /\ clock' = join.clock
             /\ UNCHANGED <<properties, tenants, leadsCsv, dataset, inflight>>

\* leadsRouter.post('/')
CreateLead(body) ==
    LET leadData == Merge(body, [status         |-> Or(Get(body, "status"), T_new),
                                 owner_notified |-> Or(Get(body, "owner_notified"), T_false)])
    IN  /\ leadsCsv' = createLead(leadData, clock)
        /\ clock' = clock + 1
        /\ response' = [op |-> "createLead", status |-> 201,
                        lead |-> newLeadOf(leadData, clock, Len(leadsCsv) + 1)]
        /\ UNCHANGED <<properties, tenants, dataset, inflight>>

\* leadsRouter.put('/:leadId')
UpdateLead(leadId, body) ==
    LET updated == updateLead(leadId, body, clock)
    IN  IF getLeadById(leadId) = Null
        THEN /\ response' = [op |-> "updateLead", leadId |-> leadId, status |-> 404]
             /\ UNCHANGED <<properties, tenants, leadsCsv, dataset, inflight, clock>>
        ELSE /\ leadsCsv' = updated.file
             /\ clock' = clock + 1
             /\ response' = [op |-> "updateLead", leadId |-> leadId, status |-> 200,
                             lead |-> updated.returned]
             /\ UNCHANGED <<properties, tenants, dataset, inflight>>

\* leadsRouter.post('/:leadId/claim')
ClaimLead(leadId, body) ==
    LET updated == updateLead(leadId,
                              [status         |-> T_claimed,
                               owner_user_id  |-> Or(Get(body, "owner_user_id"), T_guest),
                               owner_notified |-> T_true],
                              clock)
    IN  IF getLeadById(leadId) = Null
        THEN /\ response' = [op |-> "claimLead", leadId |-> leadId, status |-> 404]
             /\ UNCHANGED <<properties, tenants, leadsCsv, dataset, inflight, clock>>
        ELSE /\ leadsCsv' = updated.file
             /\ clock' = clock + 1
             /\ response' = [op |-> "claimLead", leadId |-> leadId, status |-> 200,
                             lead |-> updated.returned]
             /\ UNCHANGED <<properties, tenants, dataset, inflight>>

\* tenantsRouter.get('/:tenantId')
GetTenantById(tenantId) ==
    LET tenant == getTenantById(tenantId, clock)
    IN  /\ clock' = IF TenantsNeedIds THEN clock + 1 ELSE clock
        /\ response' = [op |-> "tenantById", tenantId |-> tenantId,
                        status |-> IF tenant = TypeError THEN 500
                                   ELSE IF tenant = Null THEN 404 ELSE 200,
                        tenant |-> tenant]
        /\ UNCHANGED <<properties, tenants, leadsCsv, dataset, inflight>>

\* the clock after two reads of tenants.csv
TwoTenantReads == IF TenantsNeedIds THEN clock + 2 ELSE clock

\* tenantsRouter.put('/:tenantId'): getTenantById, then updateTenant, which
\* reads the file again
UpdateTenant(tenantId, body) ==
    LET tenant  == getTenantById(tenantId, clock)
        between == IF TenantsNeedIds THEN clock + 1 ELSE clock
        updated == updateTenant(tenantId, body, between)
    IN  IF tenant = Null \/ tenant = TypeError
        THEN /\ response' = [op |-> "updateTenant", tenantId |-> tenantId,
                             status |-> IF tenant = Null THEN 404 ELSE 500]
             /\ clock' = between
             /\ UNCHANGED <<properties, tenants, leadsCsv, dataset, inflight>>
        ELSE /\ tenants' = updated.file
             /\ clock' = TwoTenantReads
             /\ response' = [op |-> "updateTenant", tenantId |-> tenantId, status |-> 200,
                             tenant |-> updated.returned]
             /\ UNCHANGED <<properties, leadsCsv, dataset, inflight>>

T_unknown == <<"u","n","k","n","o","w","n">>
T_call_started == <<"c","a","l","l","_","s","t","a","r","t","e","d">>
T_call_initiated == <<"c","a","l","l","_","i","n","i","t","i","a","t","e","d">>
T_call_answered == <<"c","a","l","l","_","a","n","s","w","e","r","e","d">>
T_call_ended == <<"c","a","l","l","_","e","n","d","e","d">>
T_call_completed == <<"c","a","l","l","_","c","o","m","p","l","e","t","e","d">>
T_call_failed == <<"c","a","l","l","_","f","a","i","l","e","d">>
T_call_no_answer == <<"c","a","l","l","_","n","o","_","a","n","s","w","e","r">>
T_transcript_update == <<"t","r","a","n","s","c","r","i","p","t","_","u","p","d","a","t","e">>

\* what the switch of the webhook handler does to leads.csv: the content it
\* leaves, whether it read tenants.csv, and whether it threw
webhookEffect(event, now) ==
    LET eventType   == Or(Get(event, "type"), Or(Get(event, "event_type"), T_unknown))
        callId      == Or(Get(event, "call_id"),
                          Or(Get(event, "callId"),
                             Or(Get(event, "conversation_id"),
                                Get(event, "conversationId"))))
        phoneNumber == Or(Get(event, "phone_number"),
                          Or(Get(event, "phoneNumber"), Get(event, "from")))
        transcript  == Or(Get(event, "transcript"), Get(event, "transcription"))
        recording   == Or(Get(event, "recording_url"), Or(Get(event, "recordingUrl"), <<>>))
        lead        == getLeadById(callId)
        tenant      == getTenantByPhone(phoneNumber, now)
        untouched   == [leads |-> leadsCsv, readTenants |-> FALSE, thrown |-> FALSE]
        setStatus(status) ==
            IF Truthy(callId) /\ lead # Null
            THEN [untouched EXCEPT !.leads =
                     updateLead(callId, [status     |-> status,
                                         updated_at |-> DecimalText(now)], now).file]
            ELSE untouched
    IN  CASE eventType = T_call_answered -> setStatus(T_answered)
          [] eventType \in {T_call_failed, T_call_no_answer} -> setStatus(T_no_answer)
          [] eventType \in {T_call_ended, T_call_completed} ->
                IF ~(Truthy(callId) /\ Truthy(transcript)) THEN untouched
                ELSE IF lead # Null
                THEN [untouched EXCEPT !.leads =
                         updateLead(callId, [status             |-> T_completed,
                                             transcript         |-> transcript,
                                             call_recording_url |-> recording,
                                             updated_at         |-> DecimalText(now)],
                                    now).file]
                ELSE IF tenant = TypeError
                THEN [untouched EXCEPT !.readTenants = TRUE, !.thrown = TRUE]
                ELSE IF tenant # Null
                THEN [leads |-> createLead([tenant_id          |-> Get(tenant, "tenant_id"),
                                            channel            |-> T_call,
                                            transcript         |-> transcript,
                                            call_recording_url |-> recording,
                                            status             |-> T_completed,
                                            owner_notified     |-> T_false], now),
                      readTenants |-> TRUE, thrown |-> FALSE]
                ELSE [untouched EXCEPT !.readTenants = TRUE]
          [] eventType = T_transcript_update ->
                IF Truthy(callId) /\ Truthy(transcript) /\ lead # Null
                THEN [untouched EXCEPT !.leads =
                         updateLead(callId, [transcript |-> transcript,
                                             updated_at |-> DecimalText(now)], now).file]
                ELSE untouched
          [] OTHER -> untouched

\* webhooksRouter.post('/desivocal'): the handler answers 200 in every case,
\* with status 'error' and the error's message when its switch threw
Webhook(event) ==
    LET effect  == webhookEffect(event, clock)
        written == effect.leads # leadsCsv
    IN  /\ leadsCsv' = effect.leads
        /\ clock' = IF written \/ (effect.readTenants /\ TenantsNeedIds)
                    THEN clock + 1 ELSE clock
        /\ response' = [op |-> "webhook", status |-> 200, event |-> event,
                        result |-> IF effect.thrown THEN "error" ELSE "success"]
        /\ UNCHANGED <<properties, tenants, dataset, inflight>>

(***************************************************************************)
(* Reading leads: leads are stored with references to tenants and          *)
(* properties that exist, that never existed or that were deleted, and     *)
(* read by id.                                                             *)
(***************************************************************************)
MaxRefLeads == 2
MaxRefProps == 1
MaxRefTenants == 1
MaxRefClock == 4

T_L9 == <<"L","9">>

RefPropertyBodies ==
    { [property_id |-> T_P1, property_code |-> T_A1, city |-> T_Hyd, rent |-> N(12)] }

RefTenantBodies ==
    { [tenant_id |-> T_T1, name |-> T_Asha, phone |-> N(7)] }

\* bodies of POST /leads
RefLeadBodies ==
    { [tenant_id |-> T_T1, property_id |-> T_P1],
      [tenant_id |-> T_T1],
      [property_id |-> T_P1, property_code |-> T_A1],
      [transcript |-> T_abc] }

\* the lead_ids of leads.csv
StoredLeadIds == {Get(leadsCsv[i], "lead_id") : i \in 1..Len(leadsCsv)} \ {Undefined}

InitLeadReads ==
    /\ properties = <<>>
    /\ tenants \in InitialTenantFiles
    /\ leadsCsv = <<>>
    /\ dataset = <<>>
    /\ inflight = <<>>
    /\ clock = 0
    /\ response = NoResponse

NextLeadReads ==
    \/ \E body \in RefPropertyBodies :
           /\ Len(properties) < MaxRefProps
           /\ clock < MaxRefClock
           /\ CreateProperty(body)
    \/ \E id \in {T_P1} : TwoReads <= MaxRefClock /\ DeleteProperty(id)
    \/ \E body \in RefTenantBodies, blankRow \in BlankLineOutcomes :
           /\ Len(tenants) < MaxRefTenants
           /\ clock < MaxRefClock
           /\ CreateTenant(body, blankRow)
    \/ \E body \in RefLeadBodies :
           /\ Len(leadsCsv) < MaxRefLeads
           /\ clock < MaxRefClock
           /\ CreateLead(body)
    \/ \E id \in StoredLeadIds \cup {T_L9} : clock < MaxRefClock /\ GetLeadById(id)
    \/ \E id \in StoredLeadIds \cup {T_L9} : clock < MaxRefClock /\ GetCallById(id)

SpecLeadReads == InitLeadReads /\ [][NextLeadReads]_vars

\* a stored lead has been read
IsLeadRead == response.op \in {"leadById", "callById"} /\ response.status # 404

\* the lead as stored
StoredLead == getLeadById(response.leadId)

NoStoredTenant(id) == \A i \in 1..Len(tenants) : Get(tenants[i], "tenant_id") # id
NoStoredProperty(id) == \A i \in 1..Len(properties) : Get(properties[i], "property_id") # id

\* C18: reading a lead whose tenant_id or property_id matches no stored
\* tenant or property succeeds and reports that join as null; a reference
\* that matches is reported as the record it names
C18_DanglingJoinIsNull ==
    IsLeadRead =>
        /\ response.status = 200
        /\ IF NoStoredTenant(StoredLead.tenant_id) \/ StoredLead.tenant_id = <<>>
           THEN response.lead.tenant = Null
           ELSE Get(response.lead.tenant, "tenant_id") = StoredLead.tenant_id
        /\ IF NoStoredProperty(StoredLead.property_id) \/ StoredLead.property_id = <<>>
           THEN response.lead.property = Null
           ELSE Get(response.lead.property, "property_id") = StoredLead.property_id

\* a lead has been read that names a tenant that was never stored and a
\* property that was deleted
C18_Witness ==
    /\ response.op = "leadById"
    /\ response.status = 200
    /\ StoredLead.tenant_id = T_T1
    /\ NoStoredTenant(T_T1)
    /\ StoredLead.property_id = T_P1
    /\ NoStoredProperty(T_P1)
    /\ tenants # <<>>
    /\ response.lead.tenant = Null
    /\ response.lead.property = Null

(***************************************************************************)
(* Tenant life cycle: tenants are created and updated while leads are      *)
(* listed, stored, updated and claimed, webhook events arrive, and         *)
(* tenants, properties and leads are looked up by id, phone and code.      *)
(***************************************************************************)
MaxLifeTenants == 1
MaxLifeLeads == 1
MaxLifeClock == 3

T_T2 == <<"T","2">>

LifeTenantBodies ==
    { [tenant_id |-> T_T1, name |-> T_Asha, phone |-> N(7)],
      [name |-> T_Ravi, phone |-> N(8)] }

\* bodies of PUT /tenants/:tenantId
LifeTenantUpdates ==
    { [city |-> T_Hyd],
      [tenant_id |-> T_T2, name |-> T_Ravi] }

LifeLeadBodies ==
    { [tenant_id |-> T_T1, property_id |-> T_P1] }

LifeLeadUpdates ==
    { [status |-> T_completed] }

\* the tenant_ids stored in tenants.csv
StoredTenantIds ==
    {Get(tenants[i], "tenant_id") : i \in 1..Len(tenants)} \ {Undefined, <<>>}

\* events posted by the voice agent about the call with the given id
WebhookEvents(callId) ==
    { [type |-> T_call_started, call_id |-> callId, direction |-> T_abc],
      [type |-> T_call_answered, call_id |-> callId],
      [type |-> T_call_failed, callId |-> callId],
      [type |-> T_transcript_update, call_id |-> callId, transcription |-> T_abc],
      [type |-> T_call_ended, call_id |-> callId, transcript |-> T_abc],
      [event_type |-> T_call_completed, conversation_id |-> callId,
       transcript |-> T_abc, from |-> N(7)],
      [event_type |-> T_call_completed, conversation_id |-> callId,
       transcript |-> T_abc, phone_number |-> N(9)] }

InitLife ==
    /\ properties = <<>>
    /\ tenants \in InitialTenantFiles
    /\ leadsCsv = <<>>
    /\ dataset = <<>>
    /\ inflight = <<>>
    /\ clock = 0
    /\ response = NoResponse

NextLife ==
    \/ \E body \in LifeTenantBodies, blankRow \in BlankLineOutcomes :
           /\ Len(tenants) < MaxLifeTenants
           /\ clock < MaxLifeClock
           /\ CreateTenant(body, blankRow)
    \/ \E id \in StoredTenantIds \cup {T_T2}, body \in LifeTenantUpdates :
           TwoTenantReads <= MaxLifeClock /\ UpdateTenant(id, body)
    \/ \E id \in StoredTenantIds \cup {T_T2} : clock < MaxLifeClock /\ GetTenantById(id)
    \/ \E phone \in {N(7), N(9)} : clock < MaxLifeClock /\ GetTenantByPhone(phone)
    \/ \E id \in {T_P1} : clock < MaxLifeClock /\ GetPropertyById(id)
    \/ \E code \in {T_A1} : clock < MaxLifeClock /\ GetPropertyByCode(code)
    \/ \E q \in StatusLeadQueries : clock < MaxLifeClock /\ ListLeads(q)
    \/ \E body \in LifeLeadBodies :
           /\ Len(leadsCsv) < MaxLifeLeads
           /\ clock < MaxLifeClock
           /\ CreateLead(body)
    \/ \E id \in StoredLeadIds \cup {T_L9}, body \in LifeLeadUpdates :
           clock < MaxLifeClock /\ UpdateLead(id, body)
    \/ \E id \in StoredLeadIds \cup {T_L9}, body \in {[owner_user_id |-> T_guest], EmptyRow} :
           clock < MaxLifeClock /\ ClaimLead(id, body)
    \/ \E id \in StoredLeadIds \cup {T_L9} : clock < MaxLifeClock /\ GetLeadById(id)
    \/ \E id \in StoredLeadIds \cup {T_L9} :
           \E event \in WebhookEvents(id) :
               /\ clock < MaxLifeClock
               /\ Len(webhookEffect(event, clock).leads) <= MaxLifeLeads
               /\ Webhook(event)

SpecLife == InitLife /\ [][NextLife]_vars

\* C19: a lookup of a tenant, property or lead by id, phone or code that
\* matches no stored record returns null and does not throw, for every key
\* its callers pass, the phone number of a webhook event included: the
\* lookup handlers answer 200 or 404 and the webhook handler reports success
C19_LookupsReturnNull ==
    /\ response.op \in {"tenantById", "tenantByPhone", "propertyById", "propertyByCode",
                        "leadById"}
          => response.status \in {200, 404}
    /\ response.op = "webhook" => response.result = "success"

\* C20: no operation lowers the number of stored tenant records, and every
\* tenant_id stored in tenants.csv is resolved by getTenantById after the
\* operation
C20_TenantsKept ==
    [][/\ Len(tenants') >= Len(tenants)
       /\ \A id \in StoredTenantIds : (getTenantById(id, clock) # Null)']_vars

(***************************************************************************)
(* Deleting properties: properties are created (some under an identifier   *)
(* the client supplies, so that two rows may carry the same one), listed,  *)
(* updated and deleted by id, on a flats.csv that starts empty or in the   *)
(* legacy layout.                                                          *)
(***************************************************************************)
MaxDeleteProps == 2
MaxDeleteClock == 4

\* bodies of POST /properties
DeletePropertyBodies ==
    { [property_id |-> T_P1, property_code |-> T_A1, city |-> T_Hyd],
      [property_id |-> T_P1, city |-> T_Che, rent |-> N(10)],
      [property_code |-> T_B2, city |-> T_Che] }

\* bodies of PUT /properties/:propertyId
DeleteUpdateBodies == { [status |-> T_occupied], [property_id |-> T_P1] }

\* queries of GET /properties
DeleteListQueries == { [owner_id |-> Undefined, status |-> Undefined, limit |-> Undefined] }

InitDelete ==
    /\ properties \in InitialCatalogFlats
    /\ tenants = <<>>
    /\ leadsCsv = <<>>
    /\ dataset = <<>>
    /\ inflight = <<>>
    /\ clock = 0
    /\ response = NoResponse

NextDelete ==
    \/ \E body \in DeletePropertyBodies :
           /\ Len(properties) < MaxDeleteProps
           /\ clock < MaxDeleteClock
           /\ CreateProperty(body)
    \/ \E q \in DeleteListQueries : ReadClock <= MaxDeleteClock /\ ListProperties(q)
    \/ \E id \in IdsRead \cup CatalogIds, body \in DeleteUpdateBodies :
           TwoReads <= MaxDeleteClock /\ UpdateProperty(id, body)
    \/ \E id \in IdsRead \cup CatalogIds :
           TwoReads <= MaxDeleteClock /\ DeleteProperty(id)

SpecDelete == InitDelete /\ [][NextDelete]_vars

\* the rows of flats.csv stored under the property_id
RowsWithId(id) == {i \in 1..Len(properties) : Get(properties[i], "property_id") = id}

\* flats.csv without the rows stored under the property_id
WithoutId(id) ==
    LET other(row) == Get(row, "property_id") # id
    IN  SelectSeq(properties, other)

MaxListTenants == 3
MaxListClock == 3

\* the clock after one read of tenants.csv
TenantReadClock == IF TenantsNeedIds THEN clock + 1 ELSE clock

\* tenantsRouter.get('/')
ListTenants(q) ==
    LET filters == [phone |-> IF Truthy(q.phone) THEN q.phone ELSE Undefined,
                    city  |-> IF Truthy(q.city) THEN q.city ELSE Undefined]
        found   == getTenants(filters, clock)
    IN  /\ clock' = TenantReadClock
        /\ response' = [op |-> "tenants", status |-> 200, query |-> q,
                        tenants |-> found, count |-> Len(found)]
        /\ UNCHANGED <<properties, tenants, leadsCsv, dataset, inflight>>

\* one number written in four ways
ListPhoneForms == { <<"7">>, <<"0","7">>, <<"+","7">>, <<"0"," ","7">> }

\* queries that hold no digit of a number
EmptyKeyForms == { <<"0">>, <<"+">>, <<"(", ")">> }

\* bodies of POST /tenants
ListTenantBodies ==
    { [name |-> T_Asha, phone |-> f, city |-> T_Hyd] : f \in ListPhoneForms }

\* queries of GET /tenants
ListTenantQueries ==
    { [phone |-> f, city |-> Undefined] : f \in ListPhoneForms }
        \cup { [phone |-> Undefined, city |-> Undefined],
               [phone |-> Undefined, city |-> T_hyd] }

InitTenantList ==
    /\ properties = <<>>
    /\ tenants = <<>>
    /\ leadsCsv = <<>>
    /\ dataset = <<>>
    /\ inflight = <<>>
    /\ clock = 0
    /\ response = NoResponse

NextTenantList ==
    \/ \E body \in ListTenantBodies, blankRow \in BlankLineOutcomes :
           /\ Len(tenants) < MaxListTenants
           /\ clock < MaxListClock
           /\ CreateTenant(body, blankRow)
    \/ \E q \in ListTenantQueries : TenantReadClock <= MaxListClock /\ ListTenants(q)
    \/ \E phone \in ListPhoneForms \cup EmptyKeyForms :
           TenantReadClock <= MaxListClock /\ GetTenantByPhone(phone)

SpecTenantList == InitTenantList /\ [][NextTenantList]_vars

\* a tenant record without its identifier (identifiers of rows stored
\* without one differ from read to read)
Anon(t) == [c \in DOMAIN t \ {"tenant_id"} |-> t[c]]

\* C22: the tenant getTenantByPhone(q) returns is among the tenants that
\* getTenants({phone: q}) returns from the same store
C22_PhoneLookupsAgree ==
    (response.op = "tenants" /\ Truthy(response.query.phone))
        => LET tenant == getTenantByPhone(response.query.phone, clock)
           IN  \/ tenant = Null
               \/ \E k \in 1..Len(response.tenants) :
                      Anon(response.tenants[k]) = Anon(tenant)

(***************************************************************************)
(* Concurrent creates.  createLead and createProperty are async functions: *)
(* each awaits readCSV, builds its record, and awaits writeCSV of the rows *)
(* it read plus the record.  Requests that arrive while another is at an   *)
(* await run interleaved with it at those two points.                      *)
(***************************************************************************)
MaxInflight == 2
MaxRaceClock == 3

\* the content of the store's file
FileOf(store) == IF store = "leads" THEN leadsCsv ELSE properties

\* the data the POST handler passes to createLead / createProperty
createDataOf(store, body) ==
    IF store = "leads"
    THEN Merge(body, [status         |-> Or(Get(body, "status"), T_new),
                      owner_notified |-> Or(Get(body, "owner_notified"), T_false)])
    ELSE Merge(body, [owner_id |-> Or(Get(body, "owner_id"), T_guest),
                      status   |-> Or(Get(body, "status"), T_available)])

\* the record createLead / createProperty builds once its read has returned
newRecordOf(store, rows, data, now) ==
    IF store = "leads" THEN newLeadOf(data, now, Len(rows) + 1)
    ELSE newPropertyOf(data, now, Len(rows) + 1)

\* the content createLead / createProperty writes: the rows it read and its
\* record
createdFile(store, rows, data, now) ==
    IF store = "leads"
    THEN writeCSV(Append(rows, newLeadOf(data, now, Len(rows) + 1)), LEAD_HEADERS)
    ELSE createProperty(rows, data, now)

\* a POST request arrives: the handler builds the data and the create
\* function issues its readCSV
BeginCreate(store, body) ==
    /\ inflight' = Append(inflight, [store |-> store, at |-> "readCSV",
                                     data |-> createDataOf(store, body)])
    /\ UNCHANGED <<properties, tenants, leadsCsv, dataset, clock, response>>

\* await readCSV returns the rows of the file; the record is built and
\* writeCSV is issued with the rows read and the record
ReadReturns(k) ==
    LET op   == inflight[k]
        rows == FileOf(op.store)
    IN  /\ op.at = "readCSV"
        /\ inflight' = [inflight EXCEPT ![k] =
                           [store   |-> op.store, at |-> "writeCSV", data |-> op.data,
                            record  |-> newRecordOf(op.store, rows, op.data, clock),
                            written |-> createdFile(op.store, rows, op.data, clock)]]
        /\ clock' = clock + 1
        /\ UNCHANGED <<properties, tenants, leadsCsv, dataset, response>>

\* await writeCSV returns: the file holds what the operation wrote, and the
\* handler answers 201 with the record
WriteReturns(k) ==
    LET op == inflight[k]
    IN  /\ op.at = "writeCSV"
        /\ IF op.store = "leads"
           THEN leadsCsv' = op.written /\ UNCHANGED properties
           ELSE properties' = op.written /\ UNCHANGED leadsCsv
        /\ inflight' = [inflight EXCEPT ![k] =
                           [store |-> op.store, at |-> "returned", data |-> op.data,
                            record |-> op.record]]
        /\ response' = [op |-> "create", store |-> op.store, status |-> 201,
                        record |-> op.record]
        /\ UNCHANGED <<tenants, dataset, clock>>

\* bodies of POST /leads and POST /properties
RaceBodies ==
    [ leads      |-> { [tenant_id |-> T_T1, transcript |-> T_abc],
                       [lead_id |-> T_L9, tenant_id |-> T_T2] },
      properties |-> { [property_code |-> T_A1, city |-> T_Hyd],
                       [city |-> T_Che, rent |-> N(10)] } ]

\* leads.csv before the requests: empty or with one lead
InitialLeadFiles ==
    { <<>>, writeCSV(<< newLeadOf([lead_id |-> T_L9, tenant_id |-> T_T1], 0, 1) >>,
                     LEAD_HEADERS) }

InitRace ==
    /\ properties = <<>>
    /\ tenants = <<>>
    /\ leadsCsv \in InitialLeadFiles
    /\ dataset = <<>>
    /\ inflight = <<>>
    /\ clock = 1
    /\ response = NoResponse

NextRace ==
    \/ \E store \in {"leads", "properties"} : \E body \in RaceBodies[store] :
           Len(inflight) < MaxInflight /\ BeginCreate(store, body)
    \/ \E k \in 1..Len(inflight) : clock < MaxRaceClock /\ ReadReturns(k)
    \/ \E k \in 1..Len(inflight) : WriteReturns(k)

SpecRace == InitRace /\ [][NextRace]_vars

\* the record is a row of the store's file
Stored(store, record) ==
    \E i \in 1..Len(FileOf(store)) :
        FileOf(store)[i] = writeCSV(<<record>>, DOMAIN FileOf(store)[i])[1]

\* C23: once all create operations under way have returned, the file of
\* each store holds the record of every one of them
C23_ConcurrentCreatesKept ==
    (\A k \in 1..Len(inflight) : inflight[k].at = "returned")
        => \A k \in 1..Len(inflight) : Stored(inflight[k].store, inflight[k].record)

\* C24: a POST /tenants that answers 201 adds exactly one tenant: getTenants
\* afterwards returns the tenants it returned before followed by the created
\* tenant, and no other row
C24_CreateAddsOneTenant ==
    [][response'.op = "createTenant"
          => getTenants(NoTenantFilters, clock)'
                = Append(getTenants(NoTenantFilters, clock),
                         writeCSV(<<response'.tenant>>, TENANT_HEADERS)[1])]_vars

\* C25: an update of an existing property or tenant returns the record as it
\* is stored after the update, the record a following getPropertyById /
\* getTenantById under the same id returns
C25_UpdateReturnsStored ==
    /\ (response.op = "updateProperty" /\ response.status = 200)
          => response.property = getPropertyById(response.propertyId, clock)
    /\ (response.op = "updateTenant" /\ response.status = 200)
          => response.tenant = getTenantById(response.tenantId, clock)

(***************************************************************************)
(* The voice agent's webhook: tenants and leads are stored, and events     *)
(* about calls are delivered, some of them more than once.                 *)
(***************************************************************************)
MaxHookTenants == 1
MaxHookLeads == 2
MaxHookClock == 3

\* bodies of POST /tenants and POST /leads
HookTenantBodies == { [tenant_id |-> T_T1, name |-> T_Asha, phone |-> N(7)] }
HookLeadBodies == { [lead_id |-> T_L9, tenant_id |-> T_T1], [tenant_id |-> T_T2] }

\* events about the call with the given id, under the field names the
\* handler accepts; one without a phone number, one from an unknown number
HookEvents(callId) ==
    { [type |-> T_call_started, call_id |-> callId],
      [type |-> T_abc, call_id |-> callId, transcript |-> T_abc, from |-> N(7)],
      [type |-> T_call_answered, call_id |-> callId],
      [type |-> T_call_no_answer, callId |-> callId],
      [type |-> T_transcript_update, call_id |-> callId, transcription |-> T_Asha],
      [type |-> T_call_ended, call_id |-> callId, transcript |-> T_abc],
      [type |-> T_call_ended, call_id |-> callId, from |-> N(7)],
      [event_type |-> T_call_completed, conversation_id |-> callId,
       transcript |-> T_abc, from |-> N(7)],
      [event_type |-> T_call_completed, conversation_id |-> callId,
       transcript |-> T_abc, phone_number |-> N(9)] }

InitWebhook ==
    /\ properties = <<>>
    /\ tenants \in InitialTenantFiles
    /\ leadsCsv = <<>>
    /\ dataset = <<>>
    /\ inflight = <<>>
    /\ clock = 0
    /\ response = NoResponse

NextWebhook ==
    \/ \E body \in HookTenantBodies, blankRow \in BlankLineOutcomes :
           /\ Len(tenants) < MaxHookTenants
           /\ clock < MaxHookClock
           /\ CreateTenant(body, blankRow)
    \/ \E body \in HookLeadBodies :
           /\ Len(leadsCsv) < MaxHookLeads
           /\ clock < MaxHookClock
           /\ CreateLead(body)
    \/ \E id \in StoredLeadIds \cup {T_L9} :
           \E event \in HookEvents(id) :
               /\ clock < MaxHookClock
               /\ Len(webhookEffect(event, clock).leads) <= MaxHookLeads
               /\ Webhook(event)

SpecWebhook == InitWebhook /\ [][NextWebhook]_vars

\* the fields of an event
EventType(e) == Or(Get(e, "type"), Or(Get(e, "event_type"), T_unknown))
CallIdOf(e) ==
    Or(Get(e, "call_id"),
       Or(Get(e, "callId"), Or(Get(e, "conversation_id"), Get(e, "conversationId"))))
PhoneOf(e) == Or(Get(e, "phone_number"), Or(Get(e, "phoneNumber"), Get(e, "from")))
TranscriptOf(e) == Or(Get(e, "transcript"), Get(e, "transcription"))

IsCallEnd(e) == EventType(e) \in {T_call_ended, T_call_completed}

\* a lead without its time of update
Undated(lead) == [c \in DOMAIN lead \ {"updated_at"} |-> lead[c]]

\* C26: a call_ended / call_completed event delivered a second time leaves
\* the leads the first delivery left: no lead is added, and no field other
\* than updated_at changes
C26_RedeliveryIdempotent ==
    [][(/\ response.op = "webhook"
        /\ response'.op = "webhook"
        /\ response'.event = response.event
        /\ IsCallEnd(response.event))
          => /\ Len(leadsCsv') = Len(leadsCsv)
             /\ \A i \in 1..Len(leadsCsv) : Undated(leadsCsv'[i]) = Undated(leadsCsv[i])]_vars

\* C27: when a call_ended / call_completed event has left the lead of its
\* call id 'completed', the next webhook event for the same call id does not
\* move that lead's status to 'answered' or 'no_answer'
C27_CompletedStays ==
    [][(/\ response.op = "webhook"
        /\ response'.op = "webhook"
        /\ IsCallEnd(response.event)
        /\ CallIdOf(response'.event) = CallIdOf(response.event))
          => \A i \in 1..Len(leadsCsv) :
                 (/\ Get(leadsCsv[i], "lead_id") = CallIdOf(response.event)
                  /\ Get(leadsCsv[i], "status") = T_completed)
                     => Get(leadsCsv'[i], "status") \notin {T_answered, T_no_answer}]_vars

\* the rows at which two contents of leads.csv differ
ChangedRows(before, after) ==
    {i \in 1..Len(before) : i > Len(after) \/ after[i] # before[i]}

\* C28: a webhook event is answered 200 and leaves leads.csv as it was, or
\* changes one lead, whose lead_id is the event's call id, or adds one lead;
\* it adds one only when its type is call_ended or call_completed, it has a
\* transcript, no lead has its call id and its phone number resolves to a
\* tenant; events of other types than the seven handled change nothing
C28_WebhookFrame ==
    [][response'.op = "webhook"
          => LET e == response'.event
             IN  /\ response'.status = 200
                 /\ \/ leadsCsv' = leadsCsv
                    \/ /\ Len(leadsCsv') = Len(leadsCsv)
                       /\ \E i \in 1..Len(leadsCsv) :
                              /\ ChangedRows(leadsCsv, leadsCsv') = {i}
                              /\ Get(leadsCsv[i], "lead_id") = CallIdOf(e)
                              /\ Get(leadsCsv'[i], "lead_id") = CallIdOf(e)
                    \/ /\ Len(leadsCsv') = Len(leadsCsv) + 1
                       /\ ChangedRows(leadsCsv, leadsCsv') = {}
                       /\ IsCallEnd(e)
                       /\ Truthy(TranscriptOf(e))
                       /\ \A i \in 1..Len(leadsCsv) :
                              Get(leadsCsv[i], "lead_id") # CallIdOf(e)
                       /\ PhoneOf(e) # Undefined
                       /\ getTenantByPhone(PhoneOf(e), clock) # Null
                 /\ EventType(e) \notin {T_call_answered, T_call_ended, T_call_completed,
                                         T_call_failed, T_call_no_answer,
                                         T_transcript_update}
                       => leadsCsv' = leadsCsv]_vars

\* C28 witness: a call_completed event from a stored tenant's number, about
\* a call no lead was stored for, has added a completed lead after the two
\* leads that were stored
C28_Witness ==
    /\ response.op = "webhook"
    /\ IsCallEnd(response.event)
    /\ Len(leadsCsv) = 2
    /\ Get(leadsCsv[1], "status") = T_new
    /\ Get(leadsCsv[2], "status") = T_completed
    /\ Get(leadsCsv[2], "channel") = T_call
    /\ Get(leadsCsv[2], "transcript") = T_abc
    /\ Get(leadsCsv[2], "lead_id") # CallIdOf(response.event)

\* the canonical key of a phone number: separators and one leading 0 removed
CanonicalKey(s) ==
    LET stripped == stripPhone(s)
    IN  IF startsWith(stripped, <<"0">>) THEN SubSeq(stripped, 2, Len(stripped))
        ELSE stripped

\* C29: a tenant returned by getTenantByPhone has a non-empty phone or
\* whatsapp_number whose canonical key is that of the query, so that a query
\* with an empty canonical key resolves to no tenant
C29_NoEmptyKeyMatch ==
    (response.op = "tenantByPhone" /\ response.status = 200)
        => \E f \in {"phone", "whatsapp_number"} :
               /\ Truthy(Get(response.tenant, f))
               /\ CanonicalKey(response.tenant[f]) = CanonicalKey(response.phone)

(***************************************************************************)
(* Comma-separated lists with empty tokens: properties are searched by a   *)
(* locality or amenities list, and tenants with a localities list are      *)
(* shown as leads; some lists have a trailing or a lone comma.             *)
(***************************************************************************)
MaxTokenProps == 2
MaxTokenTenants == 1
MaxTokenClock == 3

T_Gachi_comma == T_Gachi \o <<",">>
T_pool_comma == T_pool \o <<",", " ">>

\* bodies of POST /properties and POST /tenants
TokenPropertyBodies ==
    { [locality |-> T_Kond, amenities |-> T_Lift, rent |-> N(12)],
      [locality |-> T_Gachi, amenities |-> T_pool, rent |-> N(13)] }

TokenTenantBodies ==
    { [name |-> T_Asha, localities |-> l] : l \in {T_Gachi, T_Gachi_comma} }

\* queries of GET /properties/match with a locality or an amenities list only
TokenQueries ==
    { Query(Undefined, l, Undefined, Undefined, Undefined, Undefined) :
         l \in {T_Gachi, T_Gachi_comma, <<",">>, <<" ">>} }
      \cup { Query(Undefined, Undefined, Undefined, Undefined, Undefined, a) :
                a \in {T_pool, T_pool_comma} }

InitTokens ==
    /\ properties = <<>>
    /\ tenants = <<>>
    /\ leadsCsv = <<>>
    /\ dataset = <<>>
    /\ inflight = <<>>
    /\ clock = 0
    /\ response = NoResponse

NextTokens ==
    \/ \E body \in TokenPropertyBodies :
           /\ Len(properties) < MaxTokenProps
           /\ clock < MaxTokenClock
           /\ CreateProperty(body)
    \/ \E body \in TokenTenantBodies, blankRow \in BlankLineOutcomes :
           /\ Len(tenants) < MaxTokenTenants
           /\ clock < MaxTokenClock
           /\ CreateTenant(body, blankRow)
    \/ \E q \in TokenQueries : ReadClock <= MaxTokenClock /\ MatchProperties(q)
    \/ \E q \in StatusLeadQueries :
           /\ (IF TenantsNeedIds \/ PropertiesNeedIds THEN clock + 1 ELSE clock)
                  <= MaxTokenClock
           /\ ListLeads(q)

SpecTokens == InitTokens /\ [][NextTokens]_vars

\* the non-empty entries of a comma-separated list, trimmed and lower-cased
NonEmptyTokens(text) ==
    LET tokens == split(toLowerCase(text), ",")
    IN  {trim(tokens[i]) : i \in 1..Len(tokens)} \ {<<>>}

\* some non-empty entry of the list occurs in the value
HasToken(value, list) ==
    \E token \in NonEmptyTokens(list) : includes(toLowerCase(OrEmpty(value)), token)

\* the tenant asks for localities and nothing else
LocalitiesOnly(t) ==
    /\ Present(t.localities)
    /\ \A c \in {"budget_min", "budget_max", "bedrooms", "amenities"} : ~Present(t[c])

\* C30: a property found by a search that supplies only a locality list (only
\* an amenities list) contains a non-empty entry of the list in its locality
\* (amenities), and the property shown as best match of a tenant who asks for
\* localities only has a locality that contains, or is contained in, a
\* non-empty entry of the tenant's list
C30_EmptyTokensNeverMatch ==
    /\ (response.op = "match"
          /\ \A c \in {"city", "bedrooms", "budget_min", "budget_max"} :
                 response.query[c] = Undefined)
          => \A k \in 1..Len(response.properties) :
                 /\ (Truthy(response.query.locality)
                        /\ response.query.amenities = Undefined)
                       => HasToken(Get(response.properties[k], "locality"),
                                   response.query.locality)
                 /\ (Truthy(response.query.amenities)
                        /\ response.query.locality = Undefined)
                       => HasToken(Get(response.properties[k], "amenities"),
                                   response.query.amenities)
    /\ response.op = "leads"
          => \A k \in 1..Len(response.leads) :
                 (LocalitiesOnly(response.leads[k].tenant)
                     /\ response.leads[k].property # Null)
                    => \E token \in NonEmptyTokens(response.leads[k].tenant.localities) :
                           LET propLocality ==
                                   toLowerCase(response.leads[k].property.locality)
                           IN  \/ includes(propLocality, token)
                               \/ includes(token, propLocality)

=============================================================================
